---- MODULE Spec2Model ----
(***************************************************************************)
(* Longstaff-Schwartz American option pricing on an accelerator.           *)
(*                                                                         *)
(* Spec       : do_run, the host driver and the device stream it feeds.    *)
(* SpecUpdate : update_cashflow_kernel alone, over arbitrary inputs.       *)
(* SpecBeta   : the two beta kernels alone, over arbitrary inputs.         *)
(* SpecSvd    : one block of prepare_svd_kernel, thread by thread.         *)
(* SpecSort   : the three conditional swaps of svd_3x3.                    *)
(* SpecRuns   : do_run called twice on the same samples.                   *)
(* SpecExact  : do_run on rows of one price, in exact rational arithmetic. *)
(* SpecScratch: main and the indices of d_temp_storage the kernels use.    *)
(* SpecRounded: assemble_R up to line 186, in rounded binary arithmetic.   *)
(* SpecGa     : the batch loop of ga-hip/main.cu.                          *)
(* SpecUtil   : iDivUpF of agsg-cuda/util.cu.                              *)
(*                                                                         *)
(* Numbers.  A double is an integer count of model units.  Asset prices    *)
(* and the strike are counted in units of 1.0e-8, so the exercise          *)
(* threshold 1.0e-8 is one price unit.  Values of the cashflow row, of     *)
(* beta and of the scratch buffer are counted in 1/Unit of a price unit,   *)
(* with Unit chosen so that every discount and the final division by       *)
(* num_paths is exact.  exp(-r*dt) is the rational DiscNum/DiscDen and     *)
(* the growth factor exp((r-sigma^2/2)dt + sigma*sqrt(dt)*Z) of a sample   *)
(* Z in {-1,+1} is Up^Z.                                                   *)
(*                                                                         *)
(* Block sizes are scaled down: a block has NUM_THREADS_PER_BLOCK1 or      *)
(* NUM_THREADS_PER_BLOCK2 threads instead of 256 or 128; every thread is   *)
(* scheduled independently.                                                *)
(***************************************************************************)
EXTENDS Integers, Sequences, FiniteSets, TLC

\* ------------------------------------------------------------- bounds
NumTimesteps == 3
MaxPaths == 4
MaxPending == 1
NUM_THREADS_PER_BLOCK1 == 2
NUM_THREADS_PER_BLOCK2 == 3
BlocksPerWave == 2
MaxPathsUpd == 7
MaxPathsBeta == 11
MaxItersSvd == 3

\* ------------------------------------------------------------- program constants
min_in_the_money == 4
R_W_MATRICES_SMEM_SLOTS == 12
SvdStride == 16
Eps == 1

\* ------------------------------------------------------------- run parameters
K == 5
Up == 2
DiscNum == 1
DiscDen == 2

NUM_THREADS_PER_BLOCK4 == NUM_THREADS_PER_BLOCK2
num_threads_per_wave_full_occupancy == BlocksPerWave * NUM_THREADS_PER_BLOCK2
max_temp_storage == 4 * NUM_THREADS_PER_BLOCK2

RECURSIVE Pow(_, _)
Pow(b, e) == IF e = 0 THEN 1 ELSE b * Pow(b, e - 1)

RECURSIVE Fact(_)
Fact(n) == IF n <= 1 THEN 1 ELSE n * Fact(n - 1)

S0 == Pow(Up, NumTimesteps)
Unit == Pow(DiscDen, NumTimesteps + 1) * Fact(MaxPaths + 1)

Max(a, b) == IF a >= b THEN a ELSE b
Min(a, b) == IF a <= b THEN a ELSE b

RECURSIVE SumOver(_, _)
SumOver(S, f) ==
  IF S = {} THEN 0
  ELSE LET x == CHOOSE y \in S : TRUE IN f[x] + SumOver(S \ {x}, f)

\* ------------------------------------------------------------- Payoff
\* PayoffPut without the floor at 0.0.
PayoffPut_no_floor(S) == K - S

PayoffPut(S) == Max(K - S, 0)
PayoffPut_is_in_the_money(S) == S < K
PayoffCall(S) == Max(S - K, 0)
PayoffCall_is_in_the_money(S) == S > K

VARIABLES
  blockIdx,               \* prepare_svd_kernel: the block's index
  thr,                    \* prepare_svd_kernel: each thread's position and locals
  shm,                    \* prepare_svd_kernel: the block's __shared__ variables
  acc,                    \* shared-memory accesses since the last barrier
  svds_written,           \* indices of svds the block has stored
  price_put,              \* main: which payoff is priced
  num_paths,              \* do_run argument
  h_samples,              \* host samples, T*N, each -1 or +1
  hpc,                    \* do_run: the statement the host is about to run
  timestep,               \* do_run: loop variable of the backward loop
  stream,                 \* device work issued by the host, not yet begun
  running,                \* the kernel the device is executing, or idle
  d_samples,              \* device copy of the samples
  d_paths,                \* T*N price matrix; its last row is d_cashflows
  d_svds,                 \* 16 doubles per timestep
  d_all_out_of_the_money, \* one int per timestep
  d_temp_storage,         \* scratch of the reductions
  h_price,                \* result copied back to the host
  blk,                    \* prepare_svd_kernel: state of each block
  upd_next,               \* update_cashflow_kernel: next path of each thread
  update_cashflow_grid,   \* do_run: grid of update_cashflow_kernel
  dlog,                   \* history: kernels in the order the device began them
  nwrites,                \* history: writes of cashflows[p] by the current update kernel
  old_cf,                 \* history: cashflow row when the current update kernel began
  issued_early,           \* history: a launch was issued while earlier work was unfinished
  eig,                    \* svd_3x3: A00, A11, A22 and V while the columns are sorted
  first_run,              \* history: what an earlier call of do_run left
  temp_writer,            \* history: the kernel that wrote each cell of d_temp_storage last
  temp_access,            \* main: the cells of d_temp_storage the reductions address
  ga,                     \* ga-hip/main.cu: main and the ga kernel
  util                    \* agsg-cuda/util.cu: a call of iDivUpF

varsRun == <<price_put, num_paths, h_samples, hpc, timestep, stream, running,
             d_samples, d_paths, d_svds, d_all_out_of_the_money, d_temp_storage,
             h_price, blk, upd_next, update_cashflow_grid, dlog, nwrites,
             old_cf, issued_early>>

\* State of one block of prepare_svd_kernel followed thread by thread.
varsBlock == <<blockIdx, thr, shm, acc, svds_written, eig, first_run>>

\* State of the programs and views that do_run's kernels never touch.
varsOther == <<temp_access, ga, util>>

\* What a step of do_run's host and of the loop's kernels leaves alone.
varsAside == <<varsBlock, varsOther, temp_writer>>

vars == <<varsRun, varsAside>>

Payoff(S) == IF price_put THEN PayoffPut(S) ELSE PayoffCall(S)
is_in_the_money(S) == IF price_put THEN PayoffPut_is_in_the_money(S)
                      ELSE PayoffCall_is_in_the_money(S)

\* exp(-r*dt) * x
exp_min_r_dt(x) == (x * DiscNum) \div DiscDen

Timesteps == 0 .. NumTimesteps - 1
LoopTimesteps == 0 .. NumTimesteps - 2
Paths == 0 .. num_paths - 1
CashflowsBase == (NumTimesteps - 1) * num_paths


Idle == [k |-> "idle", t |-> -1]
Op(k, t) == [k |-> k, t |-> t]

\* ------------------------------------------------------------- inputs
\* The sample columns a path may draw: all down, all up, alternating.
SampleColumns ==
  { [t \in Timesteps |-> -1],
    [t \in Timesteps |-> 1],
    [t \in Timesteps |-> IF t % 2 = 0 THEN -1 ELSE 1] }

\* Content of device memory that no kernel of this run has written yet.
StaleValues == {0, 1}

\* ------------------------------------------------------------- generate_paths_kernel
\* S * exp(r_min_half_sigma_sq_dt + sigma_sqrt_dt * z)
Grow(S, z) == IF z = 1 THEN S * Up ELSE S \div Up

RECURSIVE PriceAfter(_, _, _, _)
\* The price of path p after timestep t, from samples smp laid out T x n.
PriceAfter(smp, n, p, t) ==
  Grow(IF t = 0 THEN S0 ELSE PriceAfter(smp, n, p, t - 1), smp[t * n + p])

\* generate_paths storing the price at expiry, not its payoff, in the last row.
generate_paths_price_at_expiry(smp, n) ==
  [i \in 0 .. NumTimesteps * n - 1 |->
     LET t == i \div n
         p == i % n
     IN IF t < NumTimesteps - 1
        THEN PriceAfter(smp, n, p, t)
        ELSE PriceAfter(smp, n, p, t) * Unit]

generate_paths(smp, n) ==
  [i \in 0 .. NumTimesteps * n - 1 |->
     LET t == i \div n
         p == i % n
     IN IF t < NumTimesteps - 1
        THEN PriceAfter(smp, n, p, t)
        ELSE Payoff(PriceAfter(smp, n, p, t)) * Unit]

\* ------------------------------------------------------------- prepare_svd_kernel (per block)
InTheMoneyPaths(t) == {p \in Paths : is_in_the_money(d_paths[t * num_paths + p])}

\* The paths whose count can be lost.  Thread 0 clears the shared lsum at line
\* 571 with no barrier after the other threads' read of it at line 550 in their
\* last iteration, so a thread other than thread 0 may skip line 553 there.
\* When num_paths is no multiple of the block size the barriers of the loop are
\* divergent and the count of any path of such a thread may be lost.
RacyPaths(t) ==
  {p \in InTheMoneyPaths(t) :
     /\ p % NUM_THREADS_PER_BLOCK1 # 0
     /\ (p + NUM_THREADS_PER_BLOCK1 >= num_paths
           \/ num_paths % NUM_THREADS_PER_BLOCK1 # 0)}

\* The values the shared lsum can hold when thread 0 tests it at line 580.
LsumOutcomes(t) ==
  {Cardinality(InTheMoneyPaths(t)) - Cardinality(L) : L \in SUBSET RacyPaths(t)}

\* The k-th in-the-money price of row t in path order, 0.0 when there is none.
RECURSIVE NthInTheMoney(_, _, _)
NthInTheMoney(t, k, from) ==
  IF from >= num_paths THEN 0
  ELSE IF is_in_the_money(d_paths[t * num_paths + from])
       THEN IF k = 0 THEN d_paths[t * num_paths + from]
            ELSE NthInTheMoney(t, k - 1, from + 1)
       ELSE NthInTheMoney(t, k, from + 1)

\* smem_svds at the end of the scan loop: three seeds, the rest 0.0 (line 507).
SeedSlots(t) ==
  [s \in 0 .. R_W_MATRICES_SMEM_SLOTS - 1 |->
     IF s < 3 THEN NthInTheMoney(t, s, 0) ELSE 0]

\* svd_3x3: R in slots 0..5 and W in slots 6..11.  The floating-point result
\* is drawn from two records whose entries are -1, 0 or 1: the all-zero record
\* and one with R00 = R01 = W00 = 1 and R11 = W11 = -1.
SvdRecord(ones, negs) ==
  [s \in 0 .. R_W_MATRICES_SMEM_SLOTS - 1 |->
     IF s \in ones THEN 1 ELSE IF s \in negs THEN -1 ELSE 0]

svd_3x3_results ==
  { SvdRecord({}, {}), SvdRecord({0, 1, 6}, {3, 9}) }

\* The slots of its record a full-size block stores when it is not flagged
\* (line 611) and the slots its threads other than thread 0 store when thread 0
\* alone took the flagged branch (line 580 sets not_enough_paths in thread 0 only).
StoredSlots(flagged) ==
  IF flagged THEN 1 .. R_W_MATRICES_SMEM_SLOTS - 1
  ELSE 0 .. R_W_MATRICES_SMEM_SLOTS - 1

\* prepare_svd_block flagging a timestep only when no path at all is in the money.
prepare_svd_block_only_empty(t, lsum, rec) ==
  LET flagged == lsum <= 0
      smem == IF flagged THEN SeedSlots(t) ELSE rec
  IN /\ d_all_out_of_the_money' =
          IF flagged THEN [d_all_out_of_the_money EXCEPT ![t] = 1]
          ELSE d_all_out_of_the_money
     /\ d_svds' =
          [i \in DOMAIN d_svds |->
             IF i \div SvdStride = t /\ (i % SvdStride) \in StoredSlots(flagged)
             THEN smem[i % SvdStride] ELSE d_svds[i]]

prepare_svd_block(t, lsum, rec) ==
  LET flagged == lsum < min_in_the_money
      smem == IF flagged THEN SeedSlots(t) ELSE rec
  IN /\ d_all_out_of_the_money' =
          IF flagged THEN [d_all_out_of_the_money EXCEPT ![t] = 1]
          ELSE d_all_out_of_the_money
     /\ d_svds' =
          [i \in DOMAIN d_svds |->
             IF i \div SvdStride = t /\ (i % SvdStride) \in StoredSlots(flagged)
             THEN smem[i % SvdStride] ELSE d_svds[i]]


\* ------------------------------------------------------------- compute_partial_beta_kernel
\* __drcp_rn(x), for the entries a record can hold.
drcp_rn(x) == CHOOSE y \in -1 .. 1 : x * y = 1

\* Row i of the pseudo-inverse, from the record at svd and the price S.
PseudoInverseRow(svd, S) ==
  LET R00 == d_svds[svd + 0]
      R01 == d_svds[svd + 1]
      R02 == d_svds[svd + 2]
      R11 == d_svds[svd + 3]
      R12 == d_svds[svd + 4]
      R22 == d_svds[svd + 5]
      W00 == d_svds[svd + 6]
      W01 == d_svds[svd + 7]
      W02 == d_svds[svd + 8]
      W11 == d_svds[svd + 9]
      W12 == d_svds[svd + 10]
      W22 == d_svds[svd + 11]
      inv_R00 == IF R00 # 0 THEN drcp_rn(R00) ELSE 0
      inv_R11 == IF R11 # 0 THEN drcp_rn(R11) ELSE 0
      inv_R22 == IF R22 # 0 THEN drcp_rn(R22) ELSE 0
      inv_R01 == inv_R00 * inv_R11 * R01
      inv_R02 == inv_R00 * inv_R22 * R02
      inv_R12 == inv_R22 * R12
      inv_W00 == W00 * inv_R00
      Q1i == inv_R11 * S - inv_R01
      Q2i == inv_R22 * S * S - inv_R02 - Q1i * inv_R12
  IN << inv_W00 + W01 * Q1i + W02 * Q2i,
        W11 * Q1i + W12 * Q2i,
        W22 * Q2i >>

\* PathsOfBlock with each thread taking its first path only.
PathsOfBlock_no_stride(b, g, n) ==
  {p \in Paths : p \div n = b}

\* The paths of block b of a grid of g blocks of n threads: a grid-stride loop.
PathsOfBlock(b, g, n) ==
  {p \in Paths : (p % (g * n)) \div n = b}

\* PartialBeta reading the record of timestep 0 whatever the timestep is.
PartialBeta_first_record(t, b, c) ==
  LET contrib ==
        [p \in Paths |->
           LET S == d_paths[t * num_paths + p]
               cashflow == IF is_in_the_money(S)
                           THEN d_paths[CashflowsBase + p] ELSE 0
           IN PseudoInverseRow(0, S)[c] * cashflow]
  IN SumOver(PathsOfBlock(b, NUM_THREADS_PER_BLOCK2, NUM_THREADS_PER_BLOCK2), contrib)

\* lsums of block b for timestep t, component c (1..3).
PartialBeta(t, b, c) ==
  LET contrib ==
        [p \in Paths |->
           LET S == d_paths[t * num_paths + p]
               cashflow == IF is_in_the_money(S)
                           THEN d_paths[CashflowsBase + p] ELSE 0
           IN PseudoInverseRow(SvdStride * t, S)[c] * cashflow]
  IN SumOver(PathsOfBlock(b, NUM_THREADS_PER_BLOCK2, NUM_THREADS_PER_BLOCK2), contrib)

compute_partial_beta_kernel(t) ==
  IF d_all_out_of_the_money[t] # 0 THEN d_temp_storage
  ELSE [i \in DOMAIN d_temp_storage |->
          IF i < 3 * NUM_THREADS_PER_BLOCK2
          THEN PartialBeta(t, i % NUM_THREADS_PER_BLOCK2,
                           (i \div NUM_THREADS_PER_BLOCK2) + 1)
          ELSE d_temp_storage[i]]

\* ------------------------------------------------------------- compute_final_beta_kernel
\* compute_final_beta_kernel returning at once on a flagged timestep, beta untouched.
compute_final_beta_kernel_no_fill(t) ==
  IF d_all_out_of_the_money[t] # 0
  THEN d_temp_storage
  ELSE [i \in DOMAIN d_temp_storage |->
          IF i < 3
          THEN SumOver(0 .. NUM_THREADS_PER_BLOCK2 - 1,
                       [x \in 0 .. NUM_THREADS_PER_BLOCK2 - 1 |->
                          d_temp_storage[i * NUM_THREADS_PER_BLOCK2 + x]])
          ELSE d_temp_storage[i]]

compute_final_beta_kernel(t) ==
  IF d_all_out_of_the_money[t] # 0
  THEN [i \in DOMAIN d_temp_storage |->
          IF i < 3 /\ i < NUM_THREADS_PER_BLOCK2 THEN 0 ELSE d_temp_storage[i]]
  ELSE [i \in DOMAIN d_temp_storage |->
          IF i < 3
          THEN SumOver(0 .. NUM_THREADS_PER_BLOCK2 - 1,
                       [x \in 0 .. NUM_THREADS_PER_BLOCK2 - 1 |->
                          d_temp_storage[i * NUM_THREADS_PER_BLOCK2 + x]])
          ELSE d_temp_storage[i]]

\* ------------------------------------------------------------- update_cashflow_kernel
\* update_cashflow without the test of the payoff against 1.0e-8.
update_cashflow_no_threshold(t, path) ==
  LET skip_computations == d_all_out_of_the_money[t]
      beta0 == d_temp_storage[0]
      beta1 == d_temp_storage[1]
      beta2 == d_temp_storage[2]
      old_cashflow == exp_min_r_dt(d_paths[CashflowsBase + path])
      S == d_paths[t * num_paths + path]
      S2 == S * S
      payoff == Payoff(S) * Unit
      estimated_payoff == exp_min_r_dt(beta0 + beta1 * S + beta2 * S2)
  IN IF skip_computations # 0 THEN old_cashflow
     ELSE IF payoff <= estimated_payoff
          THEN old_cashflow
          ELSE payoff

\* update_cashflow discounting the payoff it stores on exercise as well.
update_cashflow_discounts_payoff(t, path) ==
  LET skip_computations == d_all_out_of_the_money[t]
      beta0 == d_temp_storage[0]
      beta1 == d_temp_storage[1]
      beta2 == d_temp_storage[2]
      old_cashflow == exp_min_r_dt(d_paths[CashflowsBase + path])
      S == d_paths[t * num_paths + path]
      S2 == S * S
      payoff == Payoff(S) * Unit
      estimated_payoff == exp_min_r_dt(beta0 + beta1 * S + beta2 * S2)
  IN IF skip_computations # 0 THEN old_cashflow
     ELSE IF payoff <= Eps * Unit \/ payoff <= estimated_payoff
          THEN old_cashflow
          ELSE exp_min_r_dt(payoff)

\* The value one loop iteration stores into cashflows[path] (lines 816-843).
update_cashflow(t, path) ==
  LET skip_computations == d_all_out_of_the_money[t]
      beta0 == d_temp_storage[0]
      beta1 == d_temp_storage[1]
      beta2 == d_temp_storage[2]
      old_cashflow == exp_min_r_dt(d_paths[CashflowsBase + path])
      S == d_paths[t * num_paths + path]
      S2 == S * S
      payoff == Payoff(S) * Unit
      estimated_payoff == exp_min_r_dt(beta0 + beta1 * S + beta2 * S2)
  IN IF skip_computations # 0 THEN old_cashflow
     ELSE IF payoff <= Eps * Unit \/ payoff <= estimated_payoff
          THEN old_cashflow
          ELSE payoff

\* do_run, lines 960-965.
UpdateCashflowGrid(n) ==
  LET grid_dim == (n + NUM_THREADS_PER_BLOCK2 - 1) \div NUM_THREADS_PER_BLOCK2
      threads == grid_dim * NUM_THREADS_PER_BLOCK2
      wave == num_threads_per_wave_full_occupancy
      \* num_waves < 10 && num_waves - (int) num_waves < 0.6
      few == threads < 10 * wave /\ 5 * (threads % wave) < 3 * wave
  IN IF few
     THEN (Max(1, threads \div wave) * wave) \div NUM_THREADS_PER_BLOCK2
     ELSE grid_dim

\* ------------------------------------------------------------- price reduction
\* compute_partial_sums_kernel without the test path < num_paths of line 860:
\* the threads past the last path of the last block add the cell they address.
compute_partial_sums_kernel_no_guard ==
  LET grid_dim == (num_paths + NUM_THREADS_PER_BLOCK4 - 1) \div NUM_THREADS_PER_BLOCK4
      cf == [p \in 0 .. grid_dim * NUM_THREADS_PER_BLOCK4 - 1 |->
               IF p < num_paths THEN d_paths[CashflowsBase + p] ELSE Unit]
  IN [i \in DOMAIN d_temp_storage |->
        IF i < grid_dim
        THEN SumOver({p \in DOMAIN cf : p \div NUM_THREADS_PER_BLOCK4 = i}, cf)
        ELSE d_temp_storage[i]]

compute_partial_sums_kernel ==
  LET grid_dim == (num_paths + NUM_THREADS_PER_BLOCK4 - 1) \div NUM_THREADS_PER_BLOCK4
      cf == [p \in Paths |-> d_paths[CashflowsBase + p]]
  IN [i \in DOMAIN d_temp_storage |->
        IF i < grid_dim
        THEN SumOver({p \in Paths : p \div NUM_THREADS_PER_BLOCK4 = i}, cf)
        ELSE d_temp_storage[i]]

compute_final_sum_kernel ==
  LET num_blocks == (num_paths + NUM_THREADS_PER_BLOCK4 - 1) \div NUM_THREADS_PER_BLOCK4
      lsum == SumOver(0 .. num_blocks - 1, d_temp_storage)
  IN [d_temp_storage EXCEPT ![0] = exp_min_r_dt(lsum) \div num_paths]


\* ------------------------------------------------------------- do_run: the host
DeviceQuiet == stream = <<>> /\ running = Idle

\* A kernel issued earlier has not completed yet.
PhaseUnfinished ==
  running # Idle \/ \E i \in 1 .. Len(stream) : stream[i].k # "memset"

Init ==
  /\ blockIdx = 0
  /\ thr = <<>>
  /\ shm = <<>>
  /\ acc = {}
  /\ svds_written = {}
  /\ eig = <<>>
  /\ first_run = <<>>
  /\ temp_writer = [i \in 0 .. max_temp_storage - 1 |-> Idle]
  /\ temp_access = <<>>
  /\ ga = <<>>
  /\ util = <<>>
  /\ price_put = TRUE
  /\ num_paths \in 1 .. MaxPaths
  /\ \E cols \in [0 .. num_paths - 1 -> SampleColumns] :
       h_samples = [i \in 0 .. NumTimesteps * num_paths - 1 |->
                      cols[i % num_paths][i \div num_paths]]
  /\ hpc = "memcpy_samples"
  /\ timestep = NumTimesteps - 2
  /\ stream = <<>>
  /\ running = Idle
  /\ \E g \in StaleValues :
       /\ d_samples = [i \in 0 .. NumTimesteps * num_paths - 1 |-> g]
       /\ d_paths = [i \in 0 .. NumTimesteps * num_paths - 1 |-> g]
       /\ d_svds = [i \in 0 .. SvdStride * NumTimesteps - 1 |-> g]
       /\ d_all_out_of_the_money = [t \in Timesteps |-> g]
       /\ d_temp_storage = [i \in 0 .. max_temp_storage - 1 |-> g]
       /\ h_price = g
  /\ blk = [t \in LoopTimesteps |-> "idle"]
  /\ upd_next = <<>>
  /\ update_cashflow_grid = 0
  /\ dlog = <<>>
  /\ nwrites = [p \in Paths |-> 0]
  /\ old_cf = [p \in Paths |-> 0]
  /\ issued_early = FALSE

\* A kernel launch or an asynchronous memset: the host queues the work on the
\* stream and goes on; it does not wait for the device.
Issue(op, next) ==
  /\ Len(stream) < MaxPending
  /\ stream' = Append(stream, op)
  /\ issued_early' = (issued_early \/ (op.k # "memset" /\ PhaseUnfinished))
  /\ hpc' = next
  /\ UNCHANGED <<varsAside, price_put, num_paths, h_samples, running, d_samples, d_paths,
                 d_svds, d_all_out_of_the_money, d_temp_storage, h_price, blk,
                 upd_next, dlog, nwrites, old_cf>>

\* line 919: cudaMemcpy, host to device; returns when the copy is done.
CopySamples ==
  /\ hpc = "memcpy_samples"
  /\ DeviceQuiet
  /\ d_samples' = h_samples
  /\ hpc' = "generate_paths"
  /\ UNCHANGED <<varsAside, price_put, num_paths, h_samples, timestep, stream, running, d_paths,
                 d_svds, d_all_out_of_the_money, d_temp_storage, h_price, blk,
                 upd_next, update_cashflow_grid, dlog, nwrites, old_cf, issued_early>>

\* line 924
LaunchGeneratePaths ==
  /\ hpc = "generate_paths"
  /\ Issue(Op("generate_paths", -1), "memset")
  /\ UNCHANGED <<varsAside, timestep, update_cashflow_grid>>

\* line 937: cudaMemsetAsync
MemsetFlags ==
  /\ hpc = "memset"
  /\ Issue(Op("memset", -1), "prepare_svd")
  /\ UNCHANGED <<varsAside, timestep, update_cashflow_grid>>

\* lines 941-965: the launch, then the grid of the cashflow update.
LaunchPrepareSvd ==
  /\ hpc = "prepare_svd"
  /\ Issue(Op("prepare_svd", -1), "loop")
  /\ update_cashflow_grid' = UpdateCashflowGrid(num_paths)
  /\ timestep' = NumTimesteps - 2

\* line 968: the loop test.
LoopTest ==
  /\ hpc = "loop"
  /\ hpc' = IF timestep >= 0 THEN "partial_beta" ELSE "partial_sums"
  /\ UNCHANGED <<varsAside, price_put, num_paths, h_samples, timestep, stream, running,
                 d_samples, d_paths, d_svds, d_all_out_of_the_money,
                 d_temp_storage, h_price, blk, upd_next, update_cashflow_grid,
                 dlog, nwrites, old_cf, issued_early>>

\* line 971
LaunchPartialBeta ==
  /\ hpc = "partial_beta"
  /\ Issue(Op("partial_beta", timestep), "final_beta")
  /\ UNCHANGED <<varsAside, timestep, update_cashflow_grid>>

\* line 981
LaunchFinalBeta ==
  /\ hpc = "final_beta"
  /\ Issue(Op("final_beta", timestep), "update_cashflow")
  /\ UNCHANGED <<varsAside, timestep, update_cashflow_grid>>

\* line 986, then --timestep.
LaunchUpdateCashflow ==
  /\ hpc = "update_cashflow"
  /\ Issue(Op("update_cashflow", timestep), "loop")
  /\ timestep' = timestep - 1
  /\ UNCHANGED update_cashflow_grid

\* line 1001
LaunchPartialSums ==
  /\ hpc = "partial_sums"
  /\ Issue(Op("partial_sums", -1), "final_sum")
  /\ UNCHANGED <<varsAside, timestep, update_cashflow_grid>>

\* line 1007
LaunchFinalSum ==
  /\ hpc = "final_sum"
  /\ Issue(Op("final_sum", -1), "memcpy_price")
  /\ UNCHANGED <<varsAside, timestep, update_cashflow_grid>>

\* line 1015: cudaMemcpy, device to host; waits for the work queued before it.
CopyPrice ==
  /\ hpc = "memcpy_price"
  /\ DeviceQuiet
  /\ h_price' = d_temp_storage[0]
  /\ hpc' = "done"
  /\ UNCHANGED <<varsAside, price_put, num_paths, h_samples, timestep, stream, running,
                 d_samples, d_paths, d_svds, d_all_out_of_the_money,
                 d_temp_storage, blk, upd_next, update_cashflow_grid, dlog,
                 nwrites, old_cf, issued_early>>


\* ------------------------------------------------------------- the device
\* A device that takes the head of the stream while a kernel is still running.
CanBegin_overlapping(k) == stream # <<>> /\ Head(stream).k = k

\* Work of one stream runs in the order issued, one item at a time: the device
\* takes the head of the stream only when the item before it has completed.
CanBegin(k) == running = Idle /\ stream # <<>> /\ Head(stream).k = k

\* A kernel modelled as one step: it begins, runs and completes.
Whole(k) ==
  /\ CanBegin(k)
  /\ stream' = Tail(stream)
  /\ dlog' = Append(dlog, Head(stream))
  /\ UNCHANGED <<varsBlock, varsOther, price_put, num_paths, h_samples, hpc, timestep,
                 running, d_samples, h_price, blk, upd_next, update_cashflow_grid,
                 nwrites, old_cf, issued_early>>

DevGeneratePaths ==
  /\ Whole("generate_paths")
  /\ d_paths' = generate_paths(d_samples, num_paths)
  /\ UNCHANGED <<varsAside, d_svds, d_all_out_of_the_money, d_temp_storage>>

DevMemset ==
  /\ Whole("memset")
  /\ d_all_out_of_the_money' = [t \in Timesteps |-> 0]
  /\ UNCHANGED <<varsAside, d_paths, d_svds, d_temp_storage>>

\* prepare_svd_kernel<<<num_timesteps-1, ...>>>: one block per timestep; the
\* blocks of a grid run in any order and may run at the same time.
DevPrepareBegin ==
  /\ CanBegin("prepare_svd")
  /\ running' = Head(stream)
  /\ stream' = Tail(stream)
  /\ dlog' = Append(dlog, Head(stream))
  /\ blk' = [t \in LoopTimesteps |-> "pending"]
  /\ UNCHANGED <<varsAside, price_put, num_paths, h_samples, hpc, timestep, d_samples, d_paths,
                 d_svds, d_all_out_of_the_money, d_temp_storage, h_price, upd_next,
                 update_cashflow_grid, nwrites, old_cf, issued_early>>

DevPrepareBlockBegin(t) ==
  /\ running.k = "prepare_svd"
  /\ blk[t] = "pending"
  /\ blk' = [blk EXCEPT ![t] = "running"]
  /\ UNCHANGED <<varsAside, price_put, num_paths, h_samples, hpc, timestep, stream, running,
                 d_samples, d_paths, d_svds, d_all_out_of_the_money, d_temp_storage,
                 h_price, upd_next, update_cashflow_grid, dlog, nwrites, old_cf,
                 issued_early>>

DevPrepareBlockEnd(t) ==
  /\ running.k = "prepare_svd"
  /\ blk[t] = "running"
  /\ \E lsum \in LsumOutcomes(t), rec \in svd_3x3_results :
       prepare_svd_block(t, lsum, rec)
  /\ blk' = [blk EXCEPT ![t] = "done"]
  /\ UNCHANGED <<varsAside, price_put, num_paths, h_samples, hpc, timestep, stream, running,
                 d_samples, d_paths, d_temp_storage, h_price, upd_next,
                 update_cashflow_grid, dlog, nwrites, old_cf, issued_early>>

\* prepare_svd_kernel counted as complete as soon as one block is done.
DevPrepareEnd_one_block ==
  /\ running.k = "prepare_svd"
  /\ \E t \in LoopTimesteps : blk[t] = "done"
  /\ running' = Idle
  /\ UNCHANGED <<varsAside, price_put, num_paths, h_samples, hpc, timestep, stream, d_samples,
                 d_paths, d_svds, d_all_out_of_the_money, d_temp_storage, h_price,
                 blk, upd_next, update_cashflow_grid, dlog, nwrites, old_cf,
                 issued_early>>

DevPrepareEnd ==
  /\ running.k = "prepare_svd"
  /\ \A t \in LoopTimesteps : blk[t] = "done"
  /\ running' = Idle
  /\ UNCHANGED <<varsAside, price_put, num_paths, h_samples, hpc, timestep, stream, d_samples,
                 d_paths, d_svds, d_all_out_of_the_money, d_temp_storage, h_price,
                 blk, upd_next, update_cashflow_grid, dlog, nwrites, old_cf,
                 issued_early>>

\* temp_writer after the kernel at the head of the stream stored to cells.
Stores(cells) ==
  [i \in DOMAIN temp_writer |-> IF i \in cells THEN Head(stream) ELSE temp_writer[i]]

\* PartialBetaCells with a block storing only when it owns a path.
PartialBetaCells_owning_blocks(t) ==
  IF d_all_out_of_the_money[t] # 0 THEN {}
  ELSE {k * NUM_THREADS_PER_BLOCK2 + b :
          k \in 0 .. 2,
          b \in {x \in 0 .. NUM_THREADS_PER_BLOCK2 - 1 :
                   PathsOfBlock(x, NUM_THREADS_PER_BLOCK2, NUM_THREADS_PER_BLOCK2) # {}}}

\* The cells compute_partial_beta_kernel stores to: none on a flagged timestep
\* (line 633), else thread 0 of each block b of the grid stores
\* partial_sums[k*NUM_THREADS_PER_BLOCK + b], k = 0..2 (lines 738-743).
PartialBetaCells(t) ==
  IF d_all_out_of_the_money[t] # 0 THEN {}
  ELSE {k * NUM_THREADS_PER_BLOCK2 + b :
          k \in 0 .. 2, b \in 0 .. NUM_THREADS_PER_BLOCK2 - 1}

\* The cells compute_final_beta_kernel loads on a timestep that is not
\* flagged: beta[k*NUM_THREADS_PER_BLOCK + threadIdx.x], k = 0..2 (lines 765-767).
FinalBetaLoads ==
  {k * NUM_THREADS_PER_BLOCK2 + x : k \in 0 .. 2, x \in 0 .. NUM_THREADS_PER_BLOCK2 - 1}

DevPartialBeta ==
  /\ Whole("partial_beta")
  /\ d_temp_storage' = compute_partial_beta_kernel(Head(stream).t)
  /\ temp_writer' = Stores(PartialBetaCells(Head(stream).t))
  /\ UNCHANGED <<varsBlock, varsOther, d_paths, d_svds, d_all_out_of_the_money>>

DevFinalBeta ==
  /\ Whole("final_beta")
  /\ d_temp_storage' = compute_final_beta_kernel(Head(stream).t)
  /\ temp_writer' = Stores({i \in 0 .. 2 : i < NUM_THREADS_PER_BLOCK2})
  /\ UNCHANGED <<varsBlock, varsOther, d_paths, d_svds, d_all_out_of_the_money>>

\* update_cashflow_kernel<<<update_cashflow_grid, NUM_THREADS_PER_BLOCK2>>>
UpdateThreads == 0 .. update_cashflow_grid * NUM_THREADS_PER_BLOCK2 - 1

DevUpdateBegin ==
  /\ CanBegin("update_cashflow")
  /\ running' = Head(stream)
  /\ stream' = Tail(stream)
  /\ dlog' = Append(dlog, Head(stream))
  /\ upd_next' = [g \in UpdateThreads |-> g]
  /\ nwrites' = [p \in Paths |-> 0]
  /\ old_cf' = [p \in Paths |-> d_paths[CashflowsBase + p]]
  /\ UNCHANGED <<varsAside, price_put, num_paths, h_samples, hpc, timestep, d_samples, d_paths,
                 d_svds, d_all_out_of_the_money, d_temp_storage, h_price, blk,
                 update_cashflow_grid, issued_early>>

\* DevUpdateThread striding by the block size instead of the grid size.
DevUpdateThread_block_stride(g) ==
  /\ running.k = "update_cashflow"
  /\ upd_next[g] < num_paths
  /\ LET path == upd_next[g]
     IN /\ d_paths' = [d_paths EXCEPT
                         ![CashflowsBase + path] = update_cashflow(running.t, path)]
        /\ nwrites' = [nwrites EXCEPT ![path] = @ + 1]
        /\ upd_next' = [upd_next EXCEPT ![g] = path + NUM_THREADS_PER_BLOCK2]
  /\ UNCHANGED <<varsAside, price_put, num_paths, h_samples, hpc, timestep, stream, running,
                 d_samples, d_svds, d_all_out_of_the_money, d_temp_storage, h_price,
                 blk, update_cashflow_grid, dlog, old_cf, issued_early>>

\* DevUpdateThread storing through paths, the row of the timestep, not cashflows.
DevUpdateThread_stores_to_paths(g) ==
  /\ running.k = "update_cashflow"
  /\ upd_next[g] < num_paths
  /\ LET path == upd_next[g]
     IN /\ d_paths' = [d_paths EXCEPT
                         ![running.t * num_paths + path] = update_cashflow(running.t, path)]
        /\ nwrites' = [nwrites EXCEPT ![path] = @ + 1]
        /\ upd_next' = [upd_next EXCEPT
                          ![g] = path + update_cashflow_grid * NUM_THREADS_PER_BLOCK2]
  /\ UNCHANGED <<varsAside, price_put, num_paths, h_samples, hpc, timestep, stream, running,
                 d_samples, d_svds, d_all_out_of_the_money, d_temp_storage, h_price,
                 blk, update_cashflow_grid, dlog, old_cf, issued_early>>

\* One iteration of the loop at line 815 by the thread with global index g.
DevUpdateThread(g) ==
  /\ running.k = "update_cashflow"
  /\ upd_next[g] < num_paths
  /\ LET path == upd_next[g]
     IN /\ d_paths' = [d_paths EXCEPT
                         ![CashflowsBase + path] = update_cashflow(running.t, path)]
        /\ nwrites' = [nwrites EXCEPT ![path] = @ + 1]
        /\ upd_next' = [upd_next EXCEPT
                          ![g] = path + update_cashflow_grid * NUM_THREADS_PER_BLOCK2]
  /\ UNCHANGED <<varsAside, price_put, num_paths, h_samples, hpc, timestep, stream, running,
                 d_samples, d_svds, d_all_out_of_the_money, d_temp_storage, h_price,
                 blk, update_cashflow_grid, dlog, old_cf, issued_early>>

\* update_cashflow_kernel counted as complete as soon as one thread is done.
DevUpdateEnd_one_thread ==
  /\ running.k = "update_cashflow"
  /\ \E g \in UpdateThreads : upd_next[g] >= num_paths
  /\ running' = Idle
  /\ UNCHANGED <<varsAside, price_put, num_paths, h_samples, hpc, timestep, stream, d_samples,
                 d_paths, d_svds, d_all_out_of_the_money, d_temp_storage, h_price,
                 blk, upd_next, update_cashflow_grid, dlog, nwrites, old_cf,
                 issued_early>>

DevUpdateEnd ==
  /\ running.k = "update_cashflow"
  /\ \A g \in UpdateThreads : upd_next[g] >= num_paths
  /\ running' = Idle
  /\ UNCHANGED <<varsAside, price_put, num_paths, h_samples, hpc, timestep, stream, d_samples,
                 d_paths, d_svds, d_all_out_of_the_money, d_temp_storage, h_price,
                 blk, upd_next, update_cashflow_grid, dlog, nwrites, old_cf,
                 issued_early>>

DevPartialSums ==
  /\ Whole("partial_sums")
  /\ d_temp_storage' = compute_partial_sums_kernel
  /\ temp_writer' =
       Stores(0 .. (num_paths + NUM_THREADS_PER_BLOCK4 - 1) \div NUM_THREADS_PER_BLOCK4 - 1)
  /\ UNCHANGED <<varsBlock, varsOther, d_paths, d_svds, d_all_out_of_the_money>>

DevFinalSum ==
  /\ Whole("final_sum")
  /\ d_temp_storage' = compute_final_sum_kernel
  /\ temp_writer' = Stores({0})
  /\ UNCHANGED <<varsBlock, varsOther, d_paths, d_svds, d_all_out_of_the_money>>

Host ==
  \/ CopySamples
  \/ LaunchGeneratePaths
  \/ MemsetFlags
  \/ LaunchPrepareSvd
  \/ LoopTest
  \/ LaunchPartialBeta
  \/ LaunchFinalBeta
  \/ LaunchUpdateCashflow
  \/ LaunchPartialSums
  \/ LaunchFinalSum
  \/ CopyPrice

Device ==
  \/ DevGeneratePaths
  \/ DevMemset
  \/ DevPrepareBegin
  \/ \E t \in LoopTimesteps : DevPrepareBlockBegin(t)
  \/ \E t \in LoopTimesteps : DevPrepareBlockEnd(t)
  \/ DevPrepareEnd
  \/ DevPartialBeta
  \/ DevFinalBeta
  \/ DevUpdateBegin
  \/ \E g \in UpdateThreads : DevUpdateThread(g)
  \/ DevUpdateEnd
  \/ DevPartialSums
  \/ DevFinalSum

Next == Host \/ Device

Spec == Init /\ [][Next]_vars


\* ------------------------------------------------------------- properties of do_run
LoopKernels == <<"partial_beta", "final_beta", "update_cashflow">>
IsLoopOp(op) == \E i \in 1 .. 3 : op.k = LoopKernels[i]
LoopLog == SelectSeq(dlog, IsLoopOp)
LastBegun == IF dlog = <<>> THEN Idle ELSE dlog[Len(dlog)]
NumOps == 5 + 3 * (NumTimesteps - 1)
Cashflow(p) == d_paths[CashflowsBase + p]
AllPathsUpdated == \A p \in Paths : nwrites[p] >= 1
UpdateThreadsFinished == \A g \in DOMAIN upd_next : upd_next[g] >= num_paths
BlocksFinished == \A t \in LoopTimesteps : blk[t] \in {"idle", "done"}

\* C1: the device runs the backward loop's phases in the order partial beta,
\* final beta, cashflow update for timestep num_timesteps-2, then the same for
\* num_timesteps-3, and so on down to 0; and once a phase of a timestep below
\* num_timesteps-2 has begun, the cashflow update of the timestep above it has
\* stopped running and has written every path.
C1_BackwardOrder ==
  /\ \A i \in 1 .. Len(LoopLog) :
       LoopLog[i] = Op(LoopKernels[((i - 1) % 3) + 1],
                       NumTimesteps - 2 - ((i - 1) \div 3))
  /\ \A i \in 1 .. Len(LoopLog) :
       (LoopLog[i].t < NumTimesteps - 2 /\ i = Len(LoopLog)
          /\ LoopLog[i].k # "update_cashflow")
       => (AllPathsUpdated /\ running.k # "update_cashflow")

\* Witness of C1: the partial beta of timestep 0 has begun after at least one
\* update, with more than one path.
C1_Witness ==
  /\ LastBegun = Op("partial_beta", 0)
  /\ Len(LoopLog) >= 4
  /\ num_paths >= 2

\* C2 as stated: the Regression Builder of timestep t runs only after the
\* cashflow update of t+1 has completed and before the partial beta of t, and
\* never while the Regression Builder of another timestep runs.
C2_Original ==
  /\ \A t \in LoopTimesteps :
       blk[t] = "running" =>
         /\ (t = NumTimesteps - 2
               \/ (\E i \in 1 .. Len(dlog) : dlog[i] = Op("update_cashflow", t + 1)))
         /\ ~(\E i \in 1 .. Len(dlog) : dlog[i] = Op("partial_beta", t))
  /\ Cardinality({t \in LoopTimesteps : blk[t] = "running"}) <= 1

\* C2, amended: the Regression Builders of all timesteps run inside the single
\* prepare_svd_kernel launch, before any phase of the backward loop begins; no
\* block is pending or running once a loop phase has begun.
C2_Amended ==
  /\ (\E t \in LoopTimesteps : blk[t] \in {"pending", "running"}) => LoopLog = <<>>
  /\ LoopLog # <<>> => \A t \in LoopTimesteps : blk[t] = "done"

\* Witness of C2: the blocks of two timesteps run at the same time.
C2_Witness == Cardinality({t \in LoopTimesteps : blk[t] = "running"}) >= 2

\* C9 as stated: the host never issues a kernel while a kernel issued earlier
\* is unfinished.
C9_Original == ~issued_early

\* C9, amended: the device (not the host) keeps the phases apart: the kernel it
\* runs is the one it began last, no block or thread of an earlier kernel is
\* still at work, and when do_run returns every phase has run and the price is
\* the one the last phase left.
C9_Amended ==
  /\ running # Idle => running = LastBegun
  /\ (running.k # "prepare_svd") => BlocksFinished
  /\ (running.k # "update_cashflow") => UpdateThreadsFinished
  /\ hpc = "done" =>
       (DeviceQuiet /\ Len(dlog) = NumOps /\ h_price = d_temp_storage[0])

\* Witness of C9: do_run has returned after queueing a kernel behind an
\* unfinished one.
C9_Witness == hpc = "done" /\ issued_early


\* C5: when the update of a timestep with no in-the-money path runs, beta[0..2]
\* is (0, 0, 0), every path it has written holds exp(-r*dt) times its cashflow
\* from before the update, and when it has completed it has written every path.
C5_NoPathInTheMoney ==
  (LastBegun.k = "update_cashflow" /\ InTheMoneyPaths(LastBegun.t) = {}) =>
    /\ \A c \in 0 .. 2 : d_temp_storage[c] = 0
    /\ \A p \in Paths : nwrites[p] >= 1 => Cashflow(p) = exp_min_r_dt(old_cf[p])
    /\ running = Idle => AllPathsUpdated

\* Witness of C5: such an update has completed on a run with enough paths for
\* a regression, and some path carried a cashflow that is not zero.
C5_Witness ==
  /\ LastBegun.k = "update_cashflow"
  /\ running = Idle
  /\ InTheMoneyPaths(LastBegun.t) = {}
  /\ num_paths >= min_in_the_money
  /\ \E p \in Paths : old_cf[p] > 0

\* The payoff of path p at expiry, from the host samples.
TerminalPayoff(p) == Payoff(PriceAfter(h_samples, num_paths, p, NumTimesteps - 1)) * Unit

\* The average terminal payoff, discounted by exp(-r*dt) once per timestep.
DiscountedTerminalAverage ==
  ((Pow(DiscNum, NumTimesteps) * SumOver(Paths, [p \in Paths |-> TerminalPayoff(p)]))
     \div Pow(DiscDen, NumTimesteps)) \div num_paths

\* C8: with fewer than 4 paths every update carries every path forward, and the
\* price do_run returns is the average terminal payoff discounted num_timesteps
\* times.
C8_FewPaths ==
  num_paths < min_in_the_money =>
    /\ LastBegun.k = "update_cashflow" =>
         \A p \in Paths : nwrites[p] >= 1 => Cashflow(p) = exp_min_r_dt(old_cf[p])
    /\ hpc = "done" => h_price = DiscountedTerminalAverage

\* Witness of C8: do_run has returned a price above zero for three paths, one
\* of which was in the money at timestep 0.
C8_Witness ==
  /\ num_paths = min_in_the_money - 1
  /\ hpc = "done"
  /\ h_price > 0
  /\ InTheMoneyPaths(0) # {}

\* Every value the run divides is an exact multiple of the divisor.
FixedPointExact ==
  /\ \A p \in Paths : LastBegun # Idle => d_paths[CashflowsBase + p] % DiscDen = 0
  /\ hpc = "done" =>
       (Pow(DiscNum, NumTimesteps) * SumOver(Paths, [p \in Paths |-> TerminalPayoff(p)]))
          % (Pow(DiscDen, NumTimesteps) * num_paths) = 0


Began(k) == \E i \in 1 .. Len(dlog) : dlog[i].k = k

\* C13: once generate_paths_kernel has run, row 0 of column p is S0 grown by
\* the column's first sample, each row up to num_timesteps-2 is the row above
\* it grown by the column's sample of that row, and, until the first cashflow
\* update begins, row num_timesteps-1 is the payoff of the price that follows
\* row num_timesteps-2; every kernel the device begins addresses a price row
\* no higher than num_timesteps-2.
C13_PathsLayout ==
  /\ Began("generate_paths") =>
       \A p \in Paths :
         /\ \A t \in 0 .. NumTimesteps - 2 :
              d_paths[t * num_paths + p] =
                Grow(IF t = 0 THEN S0 ELSE d_paths[(t - 1) * num_paths + p],
                     h_samples[t * num_paths + p])
         /\ ~Began("update_cashflow") =>
              d_paths[(NumTimesteps - 1) * num_paths + p] =
                Unit * Payoff(Grow(d_paths[(NumTimesteps - 2) * num_paths + p],
                                   h_samples[(NumTimesteps - 1) * num_paths + p]))
  /\ \A i \in 1 .. Len(dlog) : dlog[i].t <= NumTimesteps - 2

\* Witness of C13: the paths are generated, no update has begun, two columns
\* differ in row 0 and some column ends in the money with a payoff that is not
\* its price.
C13_Witness ==
  /\ Began("generate_paths")
  /\ ~Began("update_cashflow")
  /\ Began("prepare_svd")
  /\ \E p, q \in Paths : d_paths[p] # d_paths[q]
  /\ \E p \in Paths :
       /\ Cashflow(p) > 0
       /\ Cashflow(p) # Unit * PriceAfter(h_samples, num_paths, p, NumTimesteps - 1)

C12_PriceIsDiscountedMean ==
  LET total == SumOver(Paths, [p \in Paths |-> Cashflow(p)])
      grid_dim == (num_paths + NUM_THREADS_PER_BLOCK4 - 1) \div NUM_THREADS_PER_BLOCK4
  IN /\ LastBegun.k = "partial_sums" =>
          SumOver(0 .. grid_dim - 1, d_temp_storage) = total
     /\ LastBegun.k = "final_sum" =>
          d_temp_storage[0] * DiscDen * num_paths = DiscNum * total
     /\ hpc = "done" => h_price * DiscDen * num_paths = DiscNum * total

\* Witness of C12: do_run has returned a price above zero for a number of
\* paths that fills one block and part of a second.
C12_Witness ==
  /\ hpc = "done"
  /\ h_price > 0
  /\ num_paths > NUM_THREADS_PER_BLOCK4
  /\ num_paths % NUM_THREADS_PER_BLOCK4 # 0
  /\ \E p, q \in Paths : Cashflow(p) # Cashflow(q)

\* ------------------------------------------------------------- what the backward loop writes
\* prepare_svd_kernel has begun and every block of it has completed.
PrepareSvdEnded ==
  /\ \E i \in 1 .. Len(dlog) : dlog[i].k = "prepare_svd"
  /\ running.k # "prepare_svd"

\* C22: from the end of prepare_svd_kernel to the end of the run no step
\* changes a cell of rows 0..num_timesteps-2 of the price matrix, a cell of
\* svds or a flag of all_out_of_the_money: of the price matrix only the
\* cashflow row, row num_timesteps-1, changes.
C22_LoopWritesCashflowsOnly ==
  [][PrepareSvdEnded =>
       /\ \A i \in 0 .. CashflowsBase - 1 : d_paths'[i] = d_paths[i]
       /\ d_svds' = d_svds
       /\ d_all_out_of_the_money' = d_all_out_of_the_money]_vars

\* Witness of C22: do_run has returned, the loop changed the cashflow of a
\* path, one timestep is flagged and another is not.
C22_Witness ==
  /\ hpc = "done"
  /\ \E p \in Paths : Cashflow(p) # generate_paths(d_samples, num_paths)[CashflowsBase + p]
  /\ \E t, u \in LoopTimesteps :
       d_all_out_of_the_money[t] # 0 /\ d_all_out_of_the_money[u] = 0

\* ------------------------------------------------------------- update_cashflow_kernel alone
\* Prices of the row the kernel reads and cashflows it updates, by path.
UpdPrices == <<1, 4, 8>>
UpdPrice(p, shift) == UpdPrices[((p + shift) % 3) + 1]
UpdCashflow(p) == 2 * (p % 3) * Unit

\* beta[0..2]: all zero; a constant that equals twice the largest payoff of a
\* put; a quadratic that is negative for small prices.
BetaInputs ==
  { <<0, 0, 0>>, <<8 * Unit, 0, 0>>, <<-2 * Unit, 0, Unit>> }

\* The kernel launched for timestep 0 of a run, as do_run launches it, with the
\* flag, beta, the prices and the cashflows as inputs.
InitUpdate ==
  /\ blockIdx = 0
  /\ thr = <<>>
  /\ shm = <<>>
  /\ acc = {}
  /\ svds_written = {}
  /\ eig = <<>>
  /\ first_run = <<>>
  /\ temp_writer = <<>>
  /\ temp_access = <<>>
  /\ ga = <<>>
  /\ util = <<>>
  /\ price_put \in BOOLEAN
  /\ num_paths \in 1 .. MaxPathsUpd
  /\ h_samples = <<>>
  /\ hpc = "update_cashflow"
  /\ timestep = -1
  /\ stream = <<Op("update_cashflow", 0)>>
  /\ running = Idle
  /\ d_samples = <<>>
  /\ \E shift \in 0 .. 2 :
       d_paths = [i \in 0 .. NumTimesteps * num_paths - 1 |->
                    IF i < num_paths THEN UpdPrice(i, shift)
                    ELSE IF i >= CashflowsBase THEN UpdCashflow(i - CashflowsBase)
                    ELSE S0]
  /\ d_svds = [i \in 0 .. SvdStride * NumTimesteps - 1 |-> 0]
  /\ \E f \in {0, 1} : d_all_out_of_the_money = [t \in Timesteps |-> f]
  /\ \E b \in BetaInputs :
       d_temp_storage = [i \in 0 .. max_temp_storage - 1 |-> IF i < 3 THEN b[i + 1] ELSE 0]
  /\ h_price = 0
  /\ blk = [t \in LoopTimesteps |-> "done"]
  /\ upd_next = <<>>
  /\ update_cashflow_grid = UpdateCashflowGrid(num_paths)
  /\ dlog = <<>>
  /\ nwrites = [p \in Paths |-> 0]
  /\ old_cf = [p \in Paths |-> 0]
  /\ issued_early = FALSE

NextUpdate ==
  \/ DevUpdateBegin
  \/ \E g \in UpdateThreads : DevUpdateThread(g)
  \/ DevUpdateEnd

SpecUpdate == InitUpdate /\ [][NextUpdate]_vars

UpdateBegun == LastBegun.k = "update_cashflow"
UpdateCompleted == UpdateBegun /\ running = Idle

\* C3: an update kernel never writes a path's cashflow twice, and when it has
\* completed it has written the cashflow of every path exactly once.
C3_ExactlyOnce ==
  /\ \A p \in Paths : nwrites[p] <= 1
  /\ UpdateCompleted => \A p \in Paths : nwrites[p] = 1

\* Witness of C3: a completed update whose grid has fewer threads than there
\* are paths, on a path count that is no multiple of the block size.
C3_Witness ==
  /\ UpdateCompleted
  /\ update_cashflow_grid * NUM_THREADS_PER_BLOCK2 < num_paths
  /\ num_paths % NUM_THREADS_PER_BLOCK2 # 0

\* The exercise test of the claim, on the values the kernel read: the payoff
\* exceeds 1.0e-8 and exceeds DiscNum/DiscDen times the regression estimate.
Exercises(t, p) ==
  LET S == d_paths[t * num_paths + p]
      pay == Payoff(S) * Unit
      poly == d_temp_storage[0] + d_temp_storage[1] * S + d_temp_storage[2] * S * S
  IN pay > Eps * Unit /\ pay * DiscDen > DiscNum * poly

\* C4: on a timestep that is not flagged, a path the update has written holds
\* its immediate payoff when the payoff exceeds 1.0e-8 and the discounted
\* estimate, and exp(-r*dt) times its old cashflow in every other case.
C4_ExerciseRule ==
  (UpdateBegun /\ d_all_out_of_the_money[LastBegun.t] = 0) =>
    \A p \in Paths :
      nwrites[p] >= 1 =>
        Cashflow(p) = IF Exercises(LastBegun.t, p)
                      THEN Payoff(d_paths[LastBegun.t * num_paths + p]) * Unit
                      ELSE (old_cf[p] * DiscNum) \div DiscDen

\* Witness of C4: a completed update of an unflagged timestep in which one path
\* was exercised and one path with a payoff of exactly 1.0e-8 was carried
\* forward although the estimate, zero, is below its payoff.
C4_Witness ==
  /\ UpdateCompleted
  /\ d_all_out_of_the_money[LastBegun.t] = 0
  /\ \E p \in Paths :
       /\ Exercises(LastBegun.t, p)
       /\ Cashflow(p) # (old_cf[p] * DiscNum) \div DiscDen
  /\ \E p \in Paths :
       LET pay == Payoff(d_paths[LastBegun.t * num_paths + p]) * Unit
       IN /\ pay = Eps * Unit
          /\ d_temp_storage[0] = 0 /\ d_temp_storage[1] = 0 /\ d_temp_storage[2] = 0
          /\ Cashflow(p) # pay

\* C28: a path the update has written whose price at the timestep is out of
\* the money holds exp(-r*dt) times its old cashflow, whatever beta and the
\* flag are, for a put and for a call.
C28_OutOfTheMoneyCarried ==
  UpdateBegun =>
    \A p \in Paths :
      (nwrites[p] >= 1 /\ ~is_in_the_money(d_paths[LastBegun.t * num_paths + p]))
        => Cashflow(p) = (old_cf[p] * DiscNum) \div DiscDen

\* Witness of C28: a completed update of a timestep that is not flagged, for a
\* call; a path out of the money whose regression estimate is below zero, below
\* its payoff of zero, was carried forward with a cashflow above zero.
C28_Witness ==
  /\ UpdateCompleted
  /\ ~price_put
  /\ d_all_out_of_the_money[LastBegun.t] = 0
  /\ \E p \in Paths :
       LET S == d_paths[LastBegun.t * num_paths + p]
       IN /\ ~is_in_the_money(S)
          /\ d_temp_storage[0] + d_temp_storage[1] * S + d_temp_storage[2] * S * S < 0
          /\ old_cf[p] > 0
          /\ Cashflow(p) = (old_cf[p] * DiscNum) \div DiscDen


\* ------------------------------------------------------------- the beta kernels alone
\* compute_partial_beta_kernel and compute_final_beta_kernel queued for
\* timestep 0 as do_run queues them, with the flag, the record in svds, the
\* prices and the cashflows as inputs and the scratch buffer holding whatever
\* it held before.
InitBeta ==
  /\ blockIdx = 0
  /\ thr = <<>>
  /\ shm = <<>>
  /\ acc = {}
  /\ svds_written = {}
  /\ eig = <<>>
  /\ first_run = <<>>
  /\ temp_writer = [i \in 0 .. max_temp_storage - 1 |-> Idle]
  /\ temp_access = <<>>
  /\ ga = <<>>
  /\ util = <<>>
  /\ price_put \in BOOLEAN
  /\ num_paths \in 1 .. MaxPathsBeta
  /\ h_samples = <<>>
  /\ hpc = "update_cashflow"
  /\ timestep = 0
  /\ stream = <<Op("partial_beta", 0), Op("final_beta", 0)>>
  /\ running = Idle
  /\ d_samples = <<>>
  /\ \E shift \in 0 .. 2 :
       d_paths = [i \in 0 .. NumTimesteps * num_paths - 1 |->
                    IF i < num_paths THEN UpdPrice(i, shift)
                    ELSE IF i >= CashflowsBase THEN UpdCashflow(i - CashflowsBase)
                    ELSE S0]
  /\ \E rec \in svd_3x3_results :
       d_svds = [i \in 0 .. SvdStride * NumTimesteps - 1 |->
                   IF i < R_W_MATRICES_SMEM_SLOTS THEN rec[i] ELSE 0]
  /\ \E f \in {0, 1} : d_all_out_of_the_money = [t \in Timesteps |-> f]
  /\ \E g \in StaleValues : d_temp_storage = [i \in 0 .. max_temp_storage - 1 |-> g]
  /\ h_price = 0
  /\ blk = [t \in LoopTimesteps |-> "done"]
  /\ upd_next = <<>>
  /\ update_cashflow_grid = UpdateCashflowGrid(num_paths)
  /\ dlog = <<>>
  /\ nwrites = [p \in Paths |-> 0]
  /\ old_cf = [p \in Paths |-> 0]
  /\ issued_early = FALSE

NextBeta ==
  \/ DevPartialBeta
  \/ DevFinalBeta

SpecBeta == InitBeta /\ [][NextBeta]_vars

\* Path p's term of component c (0..2) of beta at timestep t: its entry of the
\* pseudo-inverse row times its cashflow, zero when it is out of the money.
BetaTerm(t, c, p) ==
  LET S == d_paths[t * num_paths + p]
  IN IF is_in_the_money(S)
     THEN PseudoInverseRow(SvdStride * t, S)[c + 1] * Cashflow(p)
     ELSE 0

\* C19: when compute_final_beta_kernel has run for a timestep, beta[0..2] is
\* zero if the timestep is flagged and otherwise holds, per component, the sum
\* of the terms of the paths 0..num_paths-1, each taken once.
C19_BetaIsSumOverPaths ==
  LastBegun.k = "final_beta" =>
    \A c \in 0 .. 2 :
      d_temp_storage[c] =
        IF d_all_out_of_the_money[LastBegun.t] # 0 THEN 0
        ELSE SumOver(Paths, [p \in Paths |-> BetaTerm(LastBegun.t, c, p)])

\* Witness of C19: beta is not zero after the two kernels ran over more paths
\* than the grid of compute_partial_beta_kernel has threads, one of the paths
\* out of the money with a cashflow above zero.
C19_Witness ==
  /\ LastBegun.k = "final_beta"
  /\ d_all_out_of_the_money[LastBegun.t] = 0
  /\ num_paths > NUM_THREADS_PER_BLOCK2 * NUM_THREADS_PER_BLOCK2
  /\ \E c \in 0 .. 2 : d_temp_storage[c] # 0
  /\ \E p \in Paths :
       /\ ~is_in_the_money(d_paths[LastBegun.t * num_paths + p])
       /\ Cashflow(p) > 0

\* ------------------------------------------------------------- how often a payoff is discounted
\* The lowest row whose update_cashflow_kernel has written the cashflow of
\* path p, num_timesteps-1 when none has.
RowReached(p) ==
  LET IsUpdate(op) == op.k = "update_cashflow"
      upd == SelectSeq(dlog, IsUpdate)
      last == upd[Len(upd)]
  IN IF upd = <<>> THEN NumTimesteps - 1
     ELSE IF running = last /\ nwrites[p] = 0 THEN last.t + 1
     ELSE last.t

\* generate_paths_kernel has run.
PathsGenerated == \E i \in 1 .. Len(dlog) : dlog[i].k = "generate_paths"

\* The payoff of path p at row t: of the price of the row, or the payoff at
\* expiry that generate_paths_kernel left in the last row.
RowPayoff(p, t) ==
  IF t = NumTimesteps - 1 THEN TerminalPayoff(p)
  ELSE Payoff(d_paths[t * num_paths + p]) * Unit

\* The payoff of path p at row t, multiplied by exp(-r*dt) n times, is x.
DiscountedTimes(p, t, n, x) ==
  x * Pow(DiscDen, n) = RowPayoff(p, t) * Pow(DiscNum, n)

\* The rows whose payoff, multiplied by exp(-r*dt) once for every row below
\* them that the update has written, is the cashflow of path p.
RealisedRows(p) ==
  {t \in RowReached(p) .. NumTimesteps - 1 :
     DiscountedTimes(p, t, t - RowReached(p), Cashflow(p))}

\* C24: the cashflow of a path is the payoff of one of its rows t, multiplied
\* by exp(-r*dt) once for every row below t that its update has written; an
\* update stores the payoff of its row as it is or multiplies the cashflow by
\* exp(-r*dt) once; the price is the mean of the cashflows multiplied once
\* more, so that a payoff realised at row t enters it with t + 1 factors and a
\* path whose rows below num_timesteps-1 never pay with num_timesteps factors.
C24_DiscountCount ==
  /\ [](PathsGenerated =>
          /\ \A p \in Paths :
               /\ RealisedRows(p) # {}
               /\ (\A t \in LoopTimesteps : RowPayoff(p, t) = 0)
                    => NumTimesteps - 1 \in RealisedRows(p)
          /\ hpc = "done" =>
               h_price * num_paths * Pow(DiscDen, NumTimesteps) =
                 SumOver(Paths,
                         [p \in Paths |->
                            LET t == CHOOSE u \in RealisedRows(p) : TRUE
                            IN RowPayoff(p, t) * Pow(DiscNum, t + 1)
                                 * Pow(DiscDen, NumTimesteps - 1 - t)]))
  /\ [][running.k = "update_cashflow" =>
         \A p \in Paths :
           Cashflow(p)' # Cashflow(p) =>
             \/ Cashflow(p)' = RowPayoff(p, running.t)
             \/ Cashflow(p)' * DiscDen = Cashflow(p) * DiscNum]_vars

\* Witness of C24: do_run has returned a price above zero; a path was
\* exercised at a row between the first and the last, its cashflow the payoff
\* of that row multiplied once for every row below and matching no other row
\* of the path.
C24_Witness ==
  /\ hpc = "done"
  /\ h_price > 0
  /\ \E p \in Paths :
       /\ Cashflow(p) > 0
       /\ \E t \in 1 .. NumTimesteps - 2 : RealisedRows(p) = {t}

\* ------------------------------------------------------------- what the final beta kernel loads
\* C27: when compute_final_beta_kernel is about to begin for a timestep that
\* is not flagged, every cell it loads was stored last by
\* compute_partial_beta_kernel of the same timestep.
C27_LoadsWhatPartialStored ==
  (CanBegin("final_beta") /\ d_all_out_of_the_money[Head(stream).t] = 0) =>
    \A i \in FinalBetaLoads : temp_writer[i] = Op("partial_beta", Head(stream).t)

\* Witness of C27: compute_final_beta_kernel is about to begin for the last
\* timestep of the loop, not flagged, after the kernels of an earlier timestep
\* stored to the buffer, and a block of compute_partial_beta_kernel owns no path.
C27_Witness ==
  /\ CanBegin("final_beta")
  /\ Head(stream).t = 0
  /\ d_all_out_of_the_money[0] = 0
  /\ \E t \in LoopTimesteps : t # 0 /\ d_all_out_of_the_money[t] = 0
  /\ \E b \in 0 .. NUM_THREADS_PER_BLOCK2 - 1 :
       PathsOfBlock(b, NUM_THREADS_PER_BLOCK2, NUM_THREADS_PER_BLOCK2) = {}

\* ------------------------------------------------------------- the record of a timestep
\* A step in which the block of timestep t of prepare_svd_kernel stores.
BlockStores(t) ==
  /\ running.k = "prepare_svd"
  /\ blk[t] = "running"
  /\ blk'[t] = "done"

\* C23: the block of timestep t of prepare_svd_kernel changes no cell of svds
\* outside the first R_W_MATRICES_SMEM_SLOTS slots of the record at
\* SvdStride * t and no flag but that of t; svds and the flags change in no
\* other step of the kernel; and what compute_partial_beta_kernel leaves for a
\* timestep that is not flagged is computed from the record at SvdStride * t.
C23_OwnRecordAndFlag ==
  /\ [][running.k = "prepare_svd" =>
         /\ \A i \in DOMAIN d_svds :
              d_svds'[i] # d_svds[i] =>
                /\ i % SvdStride < R_W_MATRICES_SMEM_SLOTS
                /\ i \div SvdStride \in LoopTimesteps
                /\ BlockStores(i \div SvdStride)
         /\ \A t \in Timesteps :
              d_all_out_of_the_money'[t] # d_all_out_of_the_money[t] =>
                t \in LoopTimesteps /\ BlockStores(t)]_vars
  /\ [](LastBegun.k = "partial_beta" /\ d_all_out_of_the_money[LastBegun.t] = 0 =>
          \A c \in 0 .. 2 : \A b \in 0 .. NUM_THREADS_PER_BLOCK2 - 1 :
            d_temp_storage[c * NUM_THREADS_PER_BLOCK2 + b] =
              SumOver(PathsOfBlock(b, NUM_THREADS_PER_BLOCK2, NUM_THREADS_PER_BLOCK2),
                      [p \in Paths |-> BetaTerm(LastBegun.t, c, p)]))

\* Witness of C23: two timesteps hold different records, one of them flagged
\* and the other not, and compute_partial_beta_kernel has run for a timestep
\* other than 0 whose record is not that of timestep 0 and left a partial sum
\* that is not zero.
C23_Witness ==
  /\ LastBegun.k = "partial_beta"
  /\ LastBegun.t # 0
  /\ d_all_out_of_the_money[LastBegun.t] = 0
  /\ \E s \in 0 .. R_W_MATRICES_SMEM_SLOTS - 1 :
       d_svds[SvdStride * LastBegun.t + s] # d_svds[s]
  /\ \E i \in 0 .. 3 * NUM_THREADS_PER_BLOCK2 - 1 : d_temp_storage[i] # 0
  /\ \E t \in LoopTimesteps : d_all_out_of_the_money[t] # 0

\* ------------------------------------------------ one block of prepare_svd_kernel, by thread
\* The threads of the block.  The block is narrower than the 12 slots of
\* smem_svds, so the guards threadIdx.x < R_W_MATRICES_SMEM_SLOTS of lines 506
\* and 611 hold for every thread of the model.
Threads == 0 .. NUM_THREADS_PER_BLOCK1 - 1

\* main passes 1024*num_paths paths, a multiple of the block size.
SvdPathCounts == {NUM_THREADS_PER_BLOCK1 * k : k \in 1 .. MaxItersSvd}

\* The price of path p in the block's row: in the money or not, distinct for
\* the first paths in the money.  Which paths are in the money repeats with
\* the period K - 1 of the put's prices.
SvdPrice(put, p, itm) ==
  IF put THEN (IF itm THEN 1 + (p % (K - 1)) ELSE K + 3)
  ELSE (IF itm THEN K + 1 + p ELSE 1)

\* atomicOr on non-negative ints.
RECURSIVE BitOr(_, _)
BitOr(a, b) ==
  IF a = 0 THEN b
  ELSE IF b = 0 THEN a
  ELSE (IF a % 2 = 1 \/ b % 2 = 1 THEN 1 ELSE 0) + 2 * BitOr(a \div 2, b \div 2)

\* The sequential scan of lines 529-531.
RECURSIVE ScanOutput(_, _)
ScanOutput(scan_input, i) ==
  IF i = 0 THEN 0 ELSE ScanOutput(scan_input, i - 1) + scan_input[i - 1]

\* One access of thread tid to each of the cells: "r" a plain read, "w" a
\* plain write, "a" an atomic operation.
Access(tid, kind, cells) == {[tid |-> tid, cell |-> c, kind |-> kind] : c \in cells}

\* Where a thread goes on from a barrier.  A statement guarded by
\* threadIdx.x == 0 takes all other threads straight to the barrier after it.
NextIteration(t) == IF t.path < num_paths THEN "s520" ELSE "s571"
OnlyThread0(tid, label, barrier) == IF tid = 0 THEN label ELSE barrier
AfterBarrier(tid, t) ==
  CASE t.pc = "bar508" -> NextIteration(t)
    [] t.pc = "bar527" -> OnlyThread0(tid, "s528", "bar533")
    [] t.pc = "bar533" -> "s534"
    [] t.pc = "bar541" -> OnlyThread0(tid, "s546", "bar547")
    [] t.pc = "bar547" -> "s548"
    [] t.pc = "bar549" -> "s550"
    [] t.pc = "bar572" -> "s574"
    [] t.pc = "bar576" -> "s580"
    [] t.pc = "bar595" -> "s597"
    [] t.pc = "bar602" -> OnlyThread0(tid, "s605", "bar608")
    [] t.pc = "bar608" -> "s611"

Barriers ==
  {"bar508", "bar527", "bar533", "bar541", "bar547", "bar549", "bar572", "bar576",
   "bar595", "bar602", "bar608"}

\* A block of prepare_svd_kernel as do_run launches it: the flags cleared by
\* the cudaMemsetAsync of line 937, svds and the shared memory holding
\* whatever they held before.
InitSvd ==
  /\ price_put \in BOOLEAN
  /\ num_paths \in SvdPathCounts
  /\ h_samples = <<>>
  /\ hpc = "prepare_svd"
  /\ timestep = -1
  /\ stream = <<>>
  /\ running = Op("prepare_svd", -1)
  /\ d_samples = <<>>
  /\ blockIdx \in LoopTimesteps
  /\ \E pattern \in SUBSET (0 .. K - 2) :
       d_paths = [i \in 0 .. NumTimesteps * num_paths - 1 |->
                    IF i \div num_paths = blockIdx
                    THEN SvdPrice(price_put, i % num_paths,
                                  ((i % num_paths) % (K - 1)) \in pattern)
                    ELSE S0]
  /\ d_all_out_of_the_money = [t \in Timesteps |-> 0]
  /\ d_temp_storage = <<>>
  /\ h_price = 0
  /\ blk = [t \in LoopTimesteps |-> "running"]
  /\ upd_next = <<>>
  /\ update_cashflow_grid = 0
  /\ dlog = <<>>
  /\ nwrites = [p \in Paths |-> 0]
  /\ old_cf = [p \in Paths |-> 0]
  /\ issued_early = FALSE
  /\ thr = [tid \in Threads |->
              [pc |-> "s506", path |-> tid, S |-> 0, in_the_money |-> 0,
               partial_sum |-> 0, total_sum |-> 0, found_paths |-> 0, m |-> 0,
               sums |-> <<0, 0, 0, 0>>, not_enough_paths |-> 0]]
  /\ \E g \in StaleValues :
       /\ d_svds = [i \in 0 .. SvdStride * NumTimesteps - 1 |-> g]
       /\ shm = [scan_input |-> [i \in Threads |-> g],
                 scan_output |-> [i \in 0 .. NUM_THREADS_PER_BLOCK1 |-> g],
                 lsums |-> <<g, g, g, g>>,
                 lsum |-> g,
                 smem_svds |-> [i \in 0 .. R_W_MATRICES_SMEM_SLOTS - 1 |-> g]]
  /\ acc = {}
  /\ svds_written = {}
  /\ eig = <<>>
  /\ first_run = <<>>
  /\ temp_writer = <<>>
  /\ temp_access = <<>>
  /\ ga = <<>>
  /\ util = <<>>

\* What every step of a thread leaves alone.
BlockFrame ==
  UNCHANGED <<price_put, num_paths, h_samples, hpc, timestep, stream, running,
              d_samples, d_paths, d_temp_storage, h_price, blk, upd_next,
              update_cashflow_grid, dlog, nwrites, old_cf, issued_early, blockIdx,
              eig, first_run, varsOther, temp_writer>>

At(tid, label) == thr[tid].pc = label
Goto(tid, label) == [thr EXCEPT ![tid].pc = label]

\* Lines 506-507.
S506(tid) ==
  /\ At(tid, "s506")
  /\ IF tid < R_W_MATRICES_SMEM_SLOTS
     THEN /\ shm' = [shm EXCEPT !.smem_svds[tid] = 0]
          /\ acc' = acc \cup Access(tid, "w", {<<"smem_svds", tid>>})
     ELSE UNCHANGED <<shm, acc>>
  /\ thr' = Goto(tid, "bar508")
  /\ BlockFrame /\ UNCHANGED <<d_svds, d_all_out_of_the_money, svds_written>>

\* Lines 518-526.
S520(tid) ==
  /\ At(tid, "s520")
  /\ LET S == IF thr[tid].path < num_paths
              THEN d_paths[blockIdx * num_paths + thr[tid].path] ELSE 0
         in_the_money == IF is_in_the_money(S) THEN 1 ELSE 0
     IN /\ shm' = [shm EXCEPT !.scan_input[tid] = in_the_money]
        /\ thr' = [thr EXCEPT ![tid].S = S, ![tid].in_the_money = in_the_money,
                              ![tid].pc = "bar527"]
  /\ acc' = acc \cup Access(tid, "w", {<<"scan_input", tid>>})
  /\ BlockFrame /\ UNCHANGED <<d_svds, d_all_out_of_the_money, svds_written>>

\* Lines 528-532, thread 0.
S528(tid) ==
  /\ At(tid, "s528")
  /\ shm' = [shm EXCEPT !.scan_output =
               [i \in 0 .. NUM_THREADS_PER_BLOCK1 |-> ScanOutput(shm.scan_input, i)]]
  /\ acc' = acc \cup Access(tid, "r", {<<"scan_input", i>> : i \in Threads})
                \cup Access(tid, "w", {<<"scan_output", i>> :
                                          i \in 0 .. NUM_THREADS_PER_BLOCK1})
  /\ thr' = Goto(tid, "bar533")
  /\ BlockFrame /\ UNCHANGED <<d_svds, d_all_out_of_the_money, svds_written>>

\* Line 542 without the addition.
advance_found_paths_not(found_paths, total_sum) == found_paths

\* Line 542: found_paths += total_sum.
advance_found_paths(found_paths, total_sum) == found_paths + total_sum

\* Lines 534-543.  found_paths is private, so its update of line 542 is taken
\* together with the rest of the if, ahead of the barrier of line 541.
S534(tid) ==
  /\ At(tid, "s534")
  /\ LET t == thr[tid]
         partial_sum == shm.scan_output[tid]
         total_sum == shm.scan_output[NUM_THREADS_PER_BLOCK1]
         seeds == t.in_the_money # 0 /\ t.found_paths + partial_sum < 3
         slot == t.found_paths + partial_sum
     IN IF t.found_paths < 3
        THEN /\ shm' = IF seeds THEN [shm EXCEPT !.smem_svds[slot] = t.S] ELSE shm
             /\ acc' = acc \cup Access(tid, "r", {<<"scan_output", tid>>,
                                                  <<"scan_output", NUM_THREADS_PER_BLOCK1>>})
                           \cup (IF seeds THEN Access(tid, "w", {<<"smem_svds", slot>>})
                                 ELSE {})
             /\ thr' = [thr EXCEPT ![tid].partial_sum = partial_sum,
                                   ![tid].total_sum = total_sum,
                                   ![tid].found_paths = advance_found_paths(@, total_sum),
                                   ![tid].pc = "bar541"]
        ELSE /\ shm' = shm
             /\ acc' = acc \cup Access(tid, "r", {<<"scan_output", tid>>,
                                                  <<"scan_output", NUM_THREADS_PER_BLOCK1>>})
             /\ thr' = [thr EXCEPT ![tid].partial_sum = partial_sum,
                                   ![tid].total_sum = total_sum,
                                   ![tid].pc = OnlyThread0(tid, "s546", "bar547")]
  /\ BlockFrame /\ UNCHANGED <<d_svds, d_all_out_of_the_money, svds_written>>

\* Line 546, thread 0.
S546(tid) ==
  /\ At(tid, "s546")
  /\ shm' = [shm EXCEPT !.lsum = 0]
  /\ acc' = acc \cup Access(tid, "w", {<<"lsum">>})
  /\ thr' = Goto(tid, "bar547")
  /\ BlockFrame /\ UNCHANGED <<d_svds, d_all_out_of_the_money, svds_written>>

\* Line 548.
S548(tid) ==
  /\ At(tid, "s548")
  /\ shm' = [shm EXCEPT !.lsum = BitOr(@, thr[tid].in_the_money)]
  /\ acc' = acc \cup Access(tid, "a", {<<"lsum">>})
  /\ thr' = Goto(tid, "bar549")
  /\ BlockFrame /\ UNCHANGED <<d_svds, d_all_out_of_the_money, svds_written>>

\* Lines 550-568 and the increment and test of line 515.
S550(tid) ==
  /\ At(tid, "s550")
  /\ LET t == thr[tid]
         x == IF t.in_the_money # 0 THEN t.S ELSE 0
         x_sq == IF t.in_the_money # 0 THEN t.S * t.S ELSE 0
         counted == IF shm.lsum = 0 THEN t
                    ELSE [t EXCEPT !.m = @ + t.in_the_money,
                                   !.sums = <<@[1] + x, @[2] + x_sq,
                                              @[3] + x_sq * x, @[4] + x_sq * x_sq>>]
         stepped == [counted EXCEPT !.path = @ + NUM_THREADS_PER_BLOCK1]
     IN thr' = [thr EXCEPT ![tid] =
                  [stepped EXCEPT !.pc =
                     IF stepped.path < num_paths THEN "s520"
                     ELSE OnlyThread0(tid, "s571", "bar572")]]
  /\ acc' = acc \cup Access(tid, "r", {<<"lsum">>})
  /\ BlockFrame /\ UNCHANGED <<shm, d_svds, d_all_out_of_the_money, svds_written>>

\* Line 571, thread 0.
S571(tid) ==
  /\ At(tid, "s571")
  /\ shm' = [shm EXCEPT !.lsum = 0]
  /\ acc' = acc \cup Access(tid, "w", {<<"lsum">>})
  /\ thr' = Goto(tid, "bar572")
  /\ BlockFrame /\ UNCHANGED <<d_svds, d_all_out_of_the_money, svds_written>>

\* Line 574.
S574(tid) ==
  /\ At(tid, "s574")
  /\ shm' = [shm EXCEPT !.lsum = @ + thr[tid].m]
  /\ acc' = acc \cup Access(tid, "a", {<<"lsum">>})
  /\ thr' = Goto(tid, "bar576")
  /\ BlockFrame /\ UNCHANGED <<d_svds, d_all_out_of_the_money, svds_written>>

\* Lines 578-584: only thread 0 reads lsum and only thread 0 can see
\* not_enough_paths set.
not_enough_paths(tid) == tid = 0 /\ shm.lsum < min_in_the_money

\* Lines 578-588, and the guard of line 593 for a thread that goes on.
S580(tid) ==
  /\ At(tid, "s580")
  /\ acc' = acc \cup (IF tid = 0 THEN Access(tid, "r", {<<"lsum">>}) ELSE {})
  /\ IF not_enough_paths(tid)
     THEN /\ d_all_out_of_the_money' =
               IF tid = 0 THEN [d_all_out_of_the_money EXCEPT ![blockIdx] = 1]
               ELSE d_all_out_of_the_money
          /\ thr' = [thr EXCEPT ![tid].not_enough_paths = 1, ![tid].pc = "exit"]
     ELSE /\ UNCHANGED d_all_out_of_the_money
          /\ thr' = Goto(tid, OnlyThread0(tid, "s593", "bar595"))
  /\ BlockFrame /\ UNCHANGED <<shm, d_svds, svds_written>>

\* Lines 593-594, thread 0.
S593(tid) ==
  /\ At(tid, "s593")
  /\ shm' = [shm EXCEPT !.lsums = <<0, 0, 0, 0>>]
  /\ acc' = acc \cup Access(tid, "w", {<<"lsums", c>> : c \in 1 .. 4})
  /\ thr' = Goto(tid, "bar595")
  /\ BlockFrame /\ UNCHANGED <<d_svds, d_all_out_of_the_money, svds_written>>

\* Lines 597-600.
S597(tid) ==
  /\ At(tid, "s597")
  /\ shm' = [shm EXCEPT !.lsums = [c \in 1 .. 4 |-> @[c] + thr[tid].sums[c]]]
  /\ acc' = acc \cup Access(tid, "a", {<<"lsums", c>> : c \in 1 .. 4})
  /\ thr' = Goto(tid, "bar602")
  /\ BlockFrame /\ UNCHANGED <<d_svds, d_all_out_of_the_money, svds_written>>

\* Lines 605-606, thread 0: svd_3x3 reads lsum, lsums and the seeds and leaves
\* R and W in smem_svds.
S605(tid) ==
  /\ At(tid, "s605")
  /\ \E rec \in svd_3x3_results : shm' = [shm EXCEPT !.smem_svds = rec]
  /\ acc' = acc \cup Access(tid, "r", {<<"lsum">>} \cup {<<"lsums", c>> : c \in 1 .. 4})
                \cup Access(tid, "w", {<<"smem_svds", i>> :
                                          i \in 0 .. R_W_MATRICES_SMEM_SLOTS - 1})
  /\ thr' = Goto(tid, "bar608")
  /\ BlockFrame /\ UNCHANGED <<d_svds, d_all_out_of_the_money, svds_written>>

\* Lines 611-612.
S611(tid) ==
  /\ At(tid, "s611")
  /\ IF tid < R_W_MATRICES_SMEM_SLOTS
     THEN /\ d_svds' = [d_svds EXCEPT ![SvdStride * blockIdx + tid] = shm.smem_svds[tid]]
          /\ svds_written' = svds_written \cup {SvdStride * blockIdx + tid}
          /\ acc' = acc \cup Access(tid, "r", {<<"smem_svds", tid>>})
     ELSE UNCHANGED <<d_svds, svds_written, acc>>
  /\ thr' = Goto(tid, "exit")
  /\ BlockFrame /\ UNCHANGED <<shm, d_all_out_of_the_money>>

\* __syncthreads(): the threads of the block that have not exited go on once
\* each of them waits at a barrier.  The accesses before the barrier are
\* ordered before those after it.
Live == {tid \in Threads : thr[tid].pc # "exit"}
syncthreads ==
  /\ thr # <<>>
  /\ Live # {}
  /\ \A tid \in Live : thr[tid].pc \in Barriers
  /\ thr' = [tid \in Threads |->
               IF tid \in Live THEN [thr[tid] EXCEPT !.pc = AfterBarrier(tid, thr[tid])]
               ELSE thr[tid]]
  /\ acc' = {}
  /\ BlockFrame /\ UNCHANGED <<shm, d_svds, d_all_out_of_the_money, svds_written>>

\* __syncthreads() reached by a part of the block only: a thread has returned
\* (line 584 onwards, thread 0 alone) and the others wait at a barrier of lines
\* 595-608.  A barrier in divergent code is undefined: the waiting threads go
\* on, as in syncthreads above, or they wait for ever.
syncthreads_divergent ==
  /\ thr # <<>>
  /\ Live # {}
  /\ Live # Threads
  /\ \A tid \in Live : thr[tid].pc \in Barriers
  /\ thr' = [tid \in Threads |->
               IF tid \in Live THEN [thr[tid] EXCEPT !.pc = "hung"] ELSE thr[tid]]
  /\ UNCHANGED acc
  /\ BlockFrame /\ UNCHANGED <<shm, d_svds, d_all_out_of_the_money, svds_written>>

NextSvd ==
  \/ \E tid \in Threads : S506(tid)
  \/ \E tid \in Threads : S520(tid)
  \/ \E tid \in Threads : S528(tid)
  \/ \E tid \in Threads : S534(tid)
  \/ \E tid \in Threads : S546(tid)
  \/ \E tid \in Threads : S548(tid)
  \/ \E tid \in Threads : S550(tid)
  \/ \E tid \in Threads : S571(tid)
  \/ \E tid \in Threads : S574(tid)
  \/ \E tid \in Threads : S580(tid)
  \/ \E tid \in Threads : S593(tid)
  \/ \E tid \in Threads : S597(tid)
  \/ \E tid \in Threads : S605(tid)
  \/ \E tid \in Threads : S611(tid)
  \/ syncthreads
  \/ syncthreads_divergent

SpecSvd == InitSvd /\ [][NextSvd]_vars

\* Two accesses of different threads to one cell, at least one of them a plain
\* write, with no barrier between them.
DataRace ==
  \E a, b \in acc : a.tid # b.tid /\ a.cell = b.cell /\ (a.kind = "w" \/ b.kind = "w")

BlockDone == thr # <<>> /\ Live = {}
InTheMoneyCount == Cardinality(InTheMoneyPaths(blockIdx))
RegressionBranch ==
  {"s593", "bar595", "s597", "bar602", "s605", "bar608", "s611"}

\* The count thread 0 tests at line 580 is one of the counts the driver model
\* lets a block see.
LsumWithinOutcomes ==
  (thr # <<>> /\ thr[0].pc = "s580") => shm.lsum \in LsumOutcomes(blockIdx)

\* C6 as stated: when the block of a timestep has completed, the timestep's
\* flag is 1 if and only if fewer than min_in_the_money paths of its row are in
\* the money.
C6_FlagIffBelowMinimum ==
  BlockDone =>
    (d_all_out_of_the_money[blockIdx] = 1 <=> InTheMoneyCount < min_in_the_money)

\* C7 as stated: on a timestep with fewer than min_in_the_money paths in the
\* money no thread of the block is in the regression branch, no slot of the
\* timestep's record in svds is stored, and the completed block has set the flag.
C7_FlaggedSkipsRegression ==
  (thr # <<>> /\ InTheMoneyCount < min_in_the_money) =>
    /\ \A tid \in Threads : thr[tid].pc \notin RegressionBranch
    /\ svds_written = {}
    /\ BlockDone => d_all_out_of_the_money[blockIdx] = 1

\* C10 as stated: no two threads of a block access one cell, one of them with
\* a plain write, without a barrier between the two accesses.
C10_NoDataRace == ~DataRace


\* ------------------------------------------------------------- seeds and sums of the block
\* The k-th path of the block's row that is in the money, counting from 0.
NthInTheMoneyPath(k) ==
  CHOOSE p \in InTheMoneyPaths(blockIdx) :
    Cardinality({q \in InTheMoneyPaths(blockIdx) : q < p}) = k

\* Thread p % NUM_THREADS_PER_BLOCK1 has run lines 534-540 for path p.
Scanned(p) ==
  LET t == thr[p % NUM_THREADS_PER_BLOCK1]
  IN \/ t.path > p
     \/ t.path = p /\ t.pc \in {"bar541", "s546", "bar547", "s548", "bar549", "s550"}

LoopEnded == \A tid \in Threads : thr[tid].path >= num_paths
SvdCalled == thr[0].pc \in {"bar608", "s611"} \/ (thr[0].pc = "exit" /\ thr[0].not_enough_paths = 0)

\* C17: from the moment the k-th in-the-money path of the row (k = 0, 1, 2)
\* has been scanned until svd_3x3 is called, seed slot k holds that path's
\* price; so at the end of the loop the three slots hold the prices of the
\* three lowest-indexed in-the-money paths and no later iteration has
\* overwritten one.
C17_SeedSlots ==
  (thr # <<>> /\ ~SvdCalled) =>
    \A k \in 0 .. 2 :
      (InTheMoneyCount > k /\ Scanned(NthInTheMoneyPath(k))) =>
        shm.smem_svds[k] = d_paths[blockIdx * num_paths + NthInTheMoneyPath(k)]

\* Witness of C17: the loop has ended on a row whose three seeds come from two
\* iterations, with a path in the money after the third seed and a path out of
\* the money before it.
C17_Witness ==
  /\ thr # <<>>
  /\ LoopEnded
  /\ ~SvdCalled
  /\ InTheMoneyCount > 3
  /\ NthInTheMoneyPath(0) < NUM_THREADS_PER_BLOCK1
  /\ NthInTheMoneyPath(2) >= NUM_THREADS_PER_BLOCK1
  /\ \E p \in Paths : p < NthInTheMoneyPath(2) /\ p \notin InTheMoneyPaths(blockIdx)

\* The sum of the c-th powers of the prices of the row's in-the-money paths.
PowerSum(c) ==
  SumOver(InTheMoneyPaths(blockIdx),
          [p \in Paths |-> Pow(d_paths[blockIdx * num_paths + p], c)])

\* C18 as stated: when thread 0 is about to call svd_3x3, lsum is the number of
\* in-the-money paths of the row and lsums holds the sums of their first four
\* powers; no other thread calls svd_3x3.
C18_SumsAtSvd ==
  thr # <<>> =>
    /\ thr[0].pc = "s605" =>
         /\ shm.lsum = InTheMoneyCount
         /\ \A c \in 1 .. 4 : shm.lsums[c] = PowerSum(c)
    /\ \A tid \in Threads \ {0} : thr[tid].pc # "s605"


\* ------------------------------------------------------------- svd_3x3: sorting the eigenpairs
\* The eigenvalues the Jacobi loop can leave on the diagonal of A.
MaxEigen == 3
Eigenvalues == 0 .. MaxEigen

\* V after the Jacobi loop: its three columns are distinct.
EigenvectorMatrices ==
  { <<<<1, 0, 0>>, <<0, 1, 0>>, <<0, 0, 1>>>>,
    <<<<0, 1, 0>>, <<-1, 0, 0>>, <<0, 0, 1>>>> }

\* Column j of V, j = 0, 1, 2, of the locals e of svd_3x3.
Column(e, j) ==
  CASE j = 0 -> <<e.V00, e.V10, e.V20>>
    [] j = 1 -> <<e.V01, e.V11, e.V21>>
    [] j = 2 -> <<e.V02, e.V12, e.V22>>

\* The diagonal entry of A that belongs to column j.
Diagonal(e, j) == CASE j = 0 -> e.A00 [] j = 1 -> e.A11 [] j = 2 -> e.A22

\* swap that stores y in x and leaves y as it was.
swap_copy(e, x, y) == [e EXCEPT ![x] = e[y]]

\* Lines 233-236: swap(x, y) on two locals of svd_3x3.
swap(e, x, y) == [e EXCEPT ![x] = e[y], ![y] = e[x]]

\* The locals of svd_3x3 at line 395, with the diagonal and V as the loop left them.
InitSort ==
  /\ blockIdx = 0
  /\ thr = <<>>
  /\ shm = <<>>
  /\ acc = {}
  /\ svds_written = {}
  /\ first_run = <<>>
  /\ temp_writer = <<>>
  /\ temp_access = <<>>
  /\ ga = <<>>
  /\ util = <<>>
  /\ \E a \in [0 .. 2 -> Eigenvalues], v \in EigenvectorMatrices :
       eig = [pc |-> "s396",
              A00 |-> a[0], A11 |-> a[1], A22 |-> a[2],
              V00 |-> v[1][1], V01 |-> v[1][2], V02 |-> v[1][3],
              V10 |-> v[2][1], V11 |-> v[2][2], V12 |-> v[2][3],
              V20 |-> v[3][1], V21 |-> v[3][2], V22 |-> v[3][3],
              A_in |-> a,
              V_in |-> [j \in 0 .. 2 |-> <<v[1][j + 1], v[2][j + 1], v[3][j + 1]>>]]
  /\ price_put = TRUE
  /\ num_paths = 1
  /\ h_samples = <<>>
  /\ hpc = "done"
  /\ timestep = -1
  /\ stream = <<>>
  /\ running = Op("prepare_svd", -1)
  /\ d_samples = <<>>
  /\ d_paths = <<>>
  /\ d_svds = <<>>
  /\ d_all_out_of_the_money = <<>>
  /\ d_temp_storage = <<>>
  /\ h_price = 0
  /\ blk = <<>>
  /\ upd_next = <<>>
  /\ update_cashflow_grid = 0
  /\ dlog = <<>>
  /\ nwrites = <<>>
  /\ old_cf = <<>>
  /\ issued_early = FALSE

SortFrame ==
  UNCHANGED <<varsRun, blockIdx, thr, shm, acc, svds_written, first_run, varsOther,
              temp_writer>>

\* Lines 396-402.
Swap01 ==
  /\ eig.pc = "s396"
  /\ eig' = [(IF eig.A00 < eig.A11
              THEN swap(swap(swap(swap(eig, "A00", "A11"), "V00", "V01"),
                             "V10", "V11"), "V20", "V21")
              ELSE eig) EXCEPT !.pc = "s403"]
  /\ SortFrame

\* Lines 403-409.
Swap02 ==
  /\ eig.pc = "s403"
  /\ eig' = [(IF eig.A00 < eig.A22
              THEN swap(swap(swap(swap(eig, "A00", "A22"), "V00", "V02"),
                             "V10", "V12"), "V20", "V22")
              ELSE eig) EXCEPT !.pc = "s410"]
  /\ SortFrame

\* Lines 410-416.
Swap12 ==
  /\ eig.pc = "s410"
  /\ eig' = [(IF eig.A11 < eig.A22
              THEN swap(swap(swap(swap(eig, "A11", "A22"), "V01", "V02"),
                             "V11", "V12"), "V21", "V22")
              ELSE eig) EXCEPT !.pc = "s422"]
  /\ SortFrame

NextSort == Swap01 \/ Swap02 \/ Swap12

SpecSort == InitSort /\ [][NextSort]_vars

\* The rearrangements of three columns.
ColumnPermutations ==
  {f \in [0 .. 2 -> 0 .. 2] : \A i, j \in 0 .. 2 : f[i] = f[j] => i = j}

\* C20: after the three conditional swaps A00 >= A11 >= A22, and one
\* rearrangement of the three columns takes the eigenvalues and the columns of
\* V as they were before the swaps to them as they are after: the eigenvalues
\* are the same multiset and each is still beside its eigenvector column.
C20_SortedPairs ==
  (eig # <<>> /\ eig.pc = "s422") =>
    /\ eig.A00 >= eig.A11
    /\ eig.A11 >= eig.A22
    /\ \E f \in ColumnPermutations :
         \A j \in 0 .. 2 :
           /\ Diagonal(eig, j) = eig.A_in[f[j]]
           /\ Column(eig, j) = eig.V_in[f[j]]

\* Witness of C20: three distinct eigenvalues in ascending order, for which
\* each of the three swaps is taken, have been sorted; V was not the identity.
C20_Witness ==
  /\ eig # <<>>
  /\ eig.pc = "s422"
  /\ eig.A_in[0] < eig.A_in[1]
  /\ eig.A_in[1] < eig.A_in[2]
  /\ eig.V_in[0] # <<1, 0, 0>>
  /\ Column(eig, 0) = eig.V_in[2]


\* ------------------------------------------------------------- termination of a block
\* C14 as stated, for a block of prepare_svd_kernel: every thread passes every
\* barrier it waits on, none waits for ever.
C14_BarriersPass ==
  thr # <<>> => \A tid \in Threads : thr[tid].pc # "hung"

\* C25 as stated: the threads of a block execute the same sequence of
\* barriers, so that no thread has left the kernel while another thread of
\* its block is at a barrier that the first never executed.
C25_SameBarriers ==
  thr # <<>> =>
    \A tid, other \in Threads :
      thr[tid].pc = "exit" => thr[other].pc \notin Barriers \cup {"hung"}


\* ------------------------------------------------------------- do_run called twice
\* main calls do_run num_runs times on the same device buffers (lines 1170-1205).
\* The second call here is given the samples of the first.
InitRuns ==
  /\ Init
  /\ num_paths = MaxPaths

\* do_run has returned and is called again: the host starts over, the device
\* buffers hold what the first call left in them.
Rerun ==
  /\ hpc = "done"
  /\ first_run = <<>>
  /\ first_run' = [h_price |-> h_price,
                   d_all_out_of_the_money |-> d_all_out_of_the_money,
                   d_svds |-> d_svds]
  /\ hpc' = "memcpy_samples"
  /\ timestep' = NumTimesteps - 2
  /\ blk' = [t \in LoopTimesteps |-> "idle"]
  /\ upd_next' = <<>>
  /\ update_cashflow_grid' = 0
  /\ dlog' = <<>>
  /\ nwrites' = [p \in Paths |-> 0]
  /\ old_cf' = [p \in Paths |-> 0]
  /\ issued_early' = FALSE
  /\ UNCHANGED <<blockIdx, thr, shm, acc, svds_written, eig, price_put, num_paths,
                 h_samples, stream, running, d_samples, d_paths, d_svds,
                 d_all_out_of_the_money, d_temp_storage, h_price, varsOther,
                 temp_writer>>

NextRuns == Next \/ Rerun

SpecRuns == InitRuns /\ [][NextRuns]_vars

\* svd_3x3 returned the same record in both calls for every timestep that
\* neither call flagged.
SameSvdResults ==
  \A t \in LoopTimesteps :
    (first_run.d_all_out_of_the_money[t] = 0 /\ d_all_out_of_the_money[t] = 0) =>
      \A s \in 0 .. R_W_MATRICES_SMEM_SLOTS - 1 :
        first_run.d_svds[SvdStride * t + s] = d_svds[SvdStride * t + s]

\* C11 as stated: the second call of do_run, on the samples and parameters of
\* the first, returns the price the first returned.
C11_SamePriceAgain ==
  (first_run # <<>> /\ hpc = "done" /\ SameSvdResults) => h_price = first_run.h_price


\* ------------------------------------------------------------- do_run in exact arithmetic
\* In this part a double is the exact rational <<numerator, denominator>>,
\* denominator positive, in lowest terms, and prices are counted in price
\* units: the thresholds 1.0e-8 (line 839), 1.0e-16 and 1.0e-12 (lines 172,
\* 205, 422-424) separate 0 from the nonzero values that occur.  The price
\* rows are rows of one price, for which every square root taken is rational.
MaxExactPrice == 8
ExactPrices == 1 .. MaxExactPrice
ExactTerminalPrices == {1, 16}

RECURSIVE GCD(_, _)
GCD(a, b) == IF b = 0 THEN a ELSE GCD(b, a % b)
Abs(a) == IF a < 0 THEN -a ELSE a

QNorm(n, d) ==
  LET g == GCD(Abs(n), Abs(d))
  IN IF d < 0 THEN <<(-n) \div g, (-d) \div g>> ELSE <<n \div g, d \div g>>
QInt(n) == <<n, 1>>
QAdd(a, b) ==
  LET g == GCD(a[2], b[2])
  IN QNorm(a[1] * (b[2] \div g) + b[1] * (a[2] \div g), (a[2] \div g) * b[2])
QNeg(a) == <<-a[1], a[2]>>
QSub(a, b) == QAdd(a, QNeg(b))
QMul(a, b) ==
  LET g1 == GCD(Abs(a[1]), b[2])
      g2 == GCD(Abs(b[1]), a[2])
  IN QNorm((a[1] \div g1) * (b[1] \div g2), (a[2] \div g2) * (b[2] \div g1))
QDiv(a, b) == QMul(a, IF b[1] < 0 THEN <<-b[2], -b[1]>> ELSE <<b[2], b[1]>>)
QLessEq(a, b) == a[1] * b[2] <= b[1] * a[2]
QSqrt(a) ==
  <<CHOOSE k \in 0 .. a[1] : k * k = a[1], CHOOSE k \in 1 .. a[2] : k * k = a[2]>>
QZero == QInt(0)
QOne == QInt(1)
QTwo == QInt(2)
\* exp(-r*dt)
QDisc == <<DiscNum, DiscDen>>

RECURSIVE QSum(_, _)
QSum(S, f) ==
  IF S = {} THEN QZero
  ELSE LET x == CHOOSE y \in S : TRUE IN QAdd(f[x], QSum(S \ {x}, f))

InitExact ==
  /\ blockIdx = 0
  /\ thr = <<>>
  /\ shm = <<>>
  /\ acc = {}
  /\ svds_written = {}
  /\ eig = <<>>
  /\ first_run = <<>>
  /\ temp_writer = <<>>
  /\ temp_access = <<>>
  /\ ga = <<>>
  /\ util = <<>>
  /\ price_put \in BOOLEAN
  /\ num_paths = min_in_the_money
  /\ h_samples = <<>>
  /\ hpc = "prepare_svd"
  /\ timestep = NumTimesteps - 2
  /\ stream = <<>>
  /\ running = Idle
  /\ d_samples = <<>>
  /\ \E row \in [LoopTimesteps -> ExactPrices],
        last \in [0 .. min_in_the_money - 1 -> ExactTerminalPrices] :
       /\ d_paths = [i \in 0 .. NumTimesteps * min_in_the_money - 1 |->
                       IF i \div min_in_the_money < NumTimesteps - 1
                       THEN row[i \div min_in_the_money]
                       ELSE QInt(IF price_put THEN PayoffPut(last[i % min_in_the_money])
                                 ELSE PayoffCall(last[i % min_in_the_money]))]
       /\ old_cf = [p \in 0 .. min_in_the_money - 1 |->
                      QInt(IF price_put THEN PayoffPut(last[p]) ELSE PayoffCall(last[p]))]
  /\ d_svds = [i \in 0 .. SvdStride * NumTimesteps - 1 |-> QZero]
  /\ d_all_out_of_the_money = [t \in Timesteps |-> 0]
  /\ d_temp_storage = [i \in 0 .. max_temp_storage - 1 |-> QZero]
  /\ h_price = QZero
  /\ blk = <<>>
  /\ upd_next = <<>>
  /\ update_cashflow_grid = 0
  /\ dlog = <<>>
  /\ nwrites = <<>>
  /\ issued_early = FALSE

ExactFrame ==
  UNCHANGED <<thr, acc, svds_written, eig, first_run, varsOther, temp_writer, price_put, num_paths, h_samples,
              timestep, stream, running, d_samples, d_paths, d_temp_storage, h_price,
              blk, upd_next, update_cashflow_grid, dlog, nwrites, old_cf, issued_early>>

\* The block after block blockIdx of prepare_svd_kernel, or the loop of do_run.
NextBlock ==
  /\ blockIdx' = IF blockIdx < NumTimesteps - 2 THEN blockIdx + 1 ELSE blockIdx
  /\ hpc' = IF blockIdx < NumTimesteps - 2 THEN "prepare_svd" ELSE "partial_beta"

\* prepare_svd_kernel, lines 500-588, the block's threads run in turn: the
\* count, the power sums and the seeds of the block's row, then the flag.
ExactLsums(t) ==
  [c \in 1 .. 4 |->
     QInt(SumOver(InTheMoneyPaths(t),
                  [p \in Paths |-> Pow(d_paths[t * num_paths + p], c)]))]
ExactScan ==
  /\ hpc = "prepare_svd"
  /\ IF Cardinality(InTheMoneyPaths(blockIdx)) < min_in_the_money
     THEN /\ d_all_out_of_the_money' = [d_all_out_of_the_money EXCEPT ![blockIdx] = 1]
          /\ NextBlock
          /\ UNCHANGED shm
     ELSE /\ shm' = [lsum |-> Cardinality(InTheMoneyPaths(blockIdx)),
                     lsums |-> ExactLsums(blockIdx),
                     smem_svds |-> [s \in 0 .. R_W_MATRICES_SMEM_SLOTS - 1 |->
                                      QInt(SeedSlots(blockIdx)[s])],
                     qr |-> <<>>]
          /\ hpc' = "assemble_R_1"
          /\ UNCHANGED <<blockIdx, d_all_out_of_the_money>>
  /\ UNCHANGED d_svds
  /\ ExactFrame

\* assemble_R, lines 128-159: the 1st step of QR.
assemble_R_1 ==
  /\ hpc = "assemble_R_1"
  /\ LET x0 == shm.smem_svds[0]
         x0_sq == QMul(x0, x0)
         sum1 == QSub(shm.lsums[1], x0)
         sum2 == QSub(shm.lsums[2], x0_sq)
         sum3 == QSub(shm.lsums[3], QMul(x0_sq, x0))
         sum4 == QSub(shm.lsums[4], QMul(x0_sq, x0_sq))
         m_as_dbl == QInt(shm.lsum)
         sigma == QSub(m_as_dbl, QOne)
         mu == QSqrt(m_as_dbl)
         v0 == QDiv(QNeg(sigma), QAdd(QOne, mu))
         v0_sq == QMul(v0, v0)
         beta == QDiv(QMul(QTwo, v0_sq), QAdd(sigma, v0_sq))
         inv_v0 == QDiv(QOne, v0)
         one_min_beta == QSub(QOne, beta)
         beta_div_v0 == QMul(beta, inv_v0)
         beta_div_v0_sq == QMul(beta_div_v0, inv_v0)
     IN shm' = [shm EXCEPT
                  !.smem_svds =
                     [@ EXCEPT ![0] = mu,
                               ![1] = QSub(QMul(one_min_beta, x0), QMul(beta_div_v0, sum1)),
                               ![2] = QSub(QMul(one_min_beta, x0_sq),
                                           QMul(beta_div_v0, sum2))],
                  !.qr = [x1 |-> shm.smem_svds[1], x2 |-> shm.smem_svds[2],
                          sum1 |-> sum1, sum2 |-> sum2, sum3 |-> sum3, sum4 |-> sum4,
                          v0 |-> v0,
                          c1 |-> QAdd(QMul(beta_div_v0_sq, sum1), QMul(beta_div_v0, x0)),
                          c2 |-> QAdd(QMul(beta_div_v0_sq, sum2),
                                      QMul(beta_div_v0, x0_sq))]]
  /\ hpc' = "assemble_R_2"
  /\ UNCHANGED <<blockIdx, d_svds, d_all_out_of_the_money>>
  /\ ExactFrame

\* assemble_R, lines 161-184: the 2nd step of QR as far as beta.
assemble_R_2 ==
  /\ hpc = "assemble_R_2"
  /\ LET q == shm.qr
         m_as_dbl == QInt(shm.lsum)
         x1_sq == QMul(q.x1, q.x1)
         sum1 == QSub(q.sum1, q.x1)
         sum2 == QSub(q.sum2, x1_sq)
         x0 == QSub(q.x1, q.c1)
         sigma == QAdd(QSub(sum2, QMul(QTwo, QMul(q.c1, sum1))),
                       QMul(QSub(m_as_dbl, QTwo), QMul(q.c1, q.c1)))
         mu == QSqrt(QAdd(QMul(x0, x0), sigma))
         v0 == IF sigma = QZero THEN q.v0
               ELSE IF QLessEq(x0, QZero) THEN QSub(x0, mu)
               ELSE QDiv(QNeg(sigma), QAdd(x0, mu))
     IN shm' = [shm EXCEPT
                  !.qr = [q EXCEPT
                            !.sum1 = sum1,
                            !.sum2 = sum2,
                            !.sum3 = QSub(q.sum3, QMul(x1_sq, q.x1)),
                            !.sum4 = QSub(q.sum4, QMul(x1_sq, x1_sq)),
                            !.v0 = v0] @@
                         [x0 |-> x0, sigma |-> sigma,
                          beta |-> IF sigma = QZero THEN QZero
                                   ELSE QDiv(QMul(QTwo, QMul(v0, v0)),
                                             QAdd(sigma, QMul(v0, v0)))]]
  /\ hpc' = "assemble_R_2_update"
  /\ UNCHANGED <<blockIdx, d_svds, d_all_out_of_the_money>>
  /\ ExactFrame

\* assemble_R, lines 186-198: the coefficients of the rank update, R11 and R12.
assemble_R_2_update ==
  /\ hpc = "assemble_R_2_update"
  /\ LET q == shm.qr
         m_as_dbl == QInt(shm.lsum)
         x1_sq == QMul(q.x1, q.x1)
         inv_v0 == QDiv(QOne, q.v0)
         beta_div_v0 == QMul(q.beta, inv_v0)
         c3 == QMul(QAdd(QSub(QSub(q.sum3, QMul(q.c1, q.sum2)), QMul(q.c2, q.sum1)),
                         QMul(QSub(m_as_dbl, QTwo), QMul(q.c1, q.c2))),
                    beta_div_v0)
         c4 == QAdd(QMul(QSub(x1_sq, q.c2), beta_div_v0), QMul(c3, inv_v0))
         one_min_beta == QSub(QOne, q.beta)
     IN shm' = [shm EXCEPT
                  !.smem_svds =
                     [@ EXCEPT ![3] = QSub(QMul(one_min_beta, q.x0),
                                           QMul(beta_div_v0, q.sigma)),
                               ![4] = QSub(QMul(one_min_beta, QSub(x1_sq, q.c2)), c3)],
                  !.qr = [x2 |-> q.x2, sum1 |-> q.sum1, sum2 |-> q.sum2,
                          sum3 |-> q.sum3, sum4 |-> q.sum4, v0 |-> q.v0,
                          c4 |-> c4, c5 |-> QSub(QMul(q.c1, c4), q.c2)]]
  /\ hpc' = "assemble_R_3"
  /\ UNCHANGED <<blockIdx, d_svds, d_all_out_of_the_money>>
  /\ ExactFrame

\* assemble_R, lines 200-225: the 3rd step of QR.
assemble_R_3 ==
  /\ hpc = "assemble_R_3"
  /\ LET q == shm.qr
         m_as_dbl == QInt(shm.lsum)
         x2_sq == QMul(q.x2, q.x2)
         sum1 == QSub(q.sum1, q.x2)
         sum2 == QSub(q.sum2, x2_sq)
         sum3 == QSub(q.sum3, QMul(x2_sq, q.x2))
         sum4 == QSub(q.sum4, QMul(x2_sq, x2_sq))
         x0 == QAdd(QSub(x2_sq, QMul(q.c4, q.x2)), q.c5)
         sigma == QAdd(QSub(QAdd(QSub(sum4, QMul(QTwo, QMul(q.c4, sum3))),
                                 QMul(QAdd(QMul(q.c4, q.c4), QMul(QTwo, q.c5)), sum2)),
                            QMul(QTwo, QMul(QMul(q.c4, q.c5), sum1))),
                       QMul(QSub(m_as_dbl, QInt(3)), QMul(q.c5, q.c5)))
         mu == QSqrt(QAdd(QMul(x0, x0), sigma))
         v0 == IF sigma = QZero THEN q.v0
               ELSE IF QLessEq(x0, QZero) THEN QSub(x0, mu)
               ELSE QDiv(QNeg(sigma), QAdd(x0, mu))
         beta == IF sigma = QZero THEN QZero
                 ELSE QDiv(QMul(QTwo, QMul(v0, v0)), QAdd(sigma, QMul(v0, v0)))
     IN shm' = [shm EXCEPT
                  !.smem_svds[5] = QSub(QMul(QSub(QOne, beta), x0),
                                        QMul(QDiv(beta, v0), sigma)),
                  !.qr = <<>>]
  /\ hpc' = "svd_3x3"
  /\ UNCHANGED <<blockIdx, d_svds, d_all_out_of_the_money>>
  /\ ExactFrame

\* svd_3x3 after assemble_R, lines 243-475, for an R whose rows 1 and 2 are
\* zero, and the store of lines 611-612.  A = R^T R is then r r^T with
\* r = (R00, R01, R02): the Jacobi loop and the sort leave the eigenvalue r.r
\* with the eigenvector r/|r| in column 0 and two eigenvalues 0.0, lines
\* 422-424 give inv_S0 = 1/(r.r) and inv_S1 = inv_S2 = 0.0, and B = V S^-1 V^T
\* has the entries r_i r_j/(r.r)^2.  Lines 462-474 keep R and store the six
\* entries W00, W01, W02, W11, W12, W22.
svd_3x3 ==
  /\ hpc = "svd_3x3"
  /\ \A s \in 3 .. 5 : shm.smem_svds[s] = QZero
  /\ LET R00 == shm.smem_svds[0]
         R01 == shm.smem_svds[1]
         R02 == shm.smem_svds[2]
         R11 == shm.smem_svds[3]
         R12 == shm.smem_svds[4]
         R22 == shm.smem_svds[5]
         A00 == QAdd(QAdd(QMul(R00, R00), QMul(R01, R01)), QMul(R02, R02))
         inv_S0 == QDiv(QOne, A00)
         B(ri, rj) == QMul(QMul(ri, rj), QMul(inv_S0, inv_S0))
         W == [shm.smem_svds EXCEPT
                 ![6] = QAdd(QAdd(QMul(B(R00, R00), R00), QMul(B(R00, R01), R01)),
                             QMul(B(R00, R02), R02)),
                 ![7] = QAdd(QMul(B(R00, R01), R11), QMul(B(R00, R02), R12)),
                 ![8] = QMul(B(R00, R02), R22),
                 ![9] = QAdd(QMul(B(R01, R01), R11), QMul(B(R01, R02), R12)),
                 ![10] = QMul(B(R01, R02), R22),
                 ![11] = QMul(B(R02, R02), R22)]
     IN /\ shm' = [shm EXCEPT !.smem_svds = W]
        /\ d_svds' = [i \in DOMAIN d_svds |->
                        IF i \div SvdStride = blockIdx
                           /\ i % SvdStride < R_W_MATRICES_SMEM_SLOTS
                        THEN W[i % SvdStride] ELSE d_svds[i]]
  /\ NextBlock
  /\ UNCHANGED d_all_out_of_the_money
  /\ ExactFrame

\* Lines 646-723: the row WI0, WI1, WI2 of the pseudo-inverse for the price S.
ExactWI(t, S) ==
  LET svd == [s \in 0 .. R_W_MATRICES_SMEM_SLOTS - 1 |-> d_svds[SvdStride * t + s]]
      inv(x) == IF x # QZero THEN QDiv(QOne, x) ELSE QZero
      inv_R00 == inv(svd[0])
      inv_R11 == inv(svd[3])
      inv_R22 == inv(svd[5])
      inv_R01 == QMul(QMul(inv_R00, inv_R11), svd[1])
      inv_R02 == QMul(QMul(inv_R00, inv_R22), svd[2])
      inv_R12 == QMul(inv_R22, svd[4])
      inv_W00 == QMul(svd[6], inv_R00)
      Q1i == QSub(QMul(inv_R11, S), inv_R01)
      Q2i == QSub(QSub(QMul(QMul(inv_R22, S), S), inv_R02), QMul(Q1i, inv_R12))
  IN <<QAdd(QAdd(inv_W00, QMul(svd[7], Q1i)), QMul(svd[8], Q2i)),
       QAdd(QMul(svd[9], Q1i), QMul(svd[10], Q2i)),
       QMul(svd[11], Q2i)>>

\* compute_partial_beta_kernel and compute_final_beta_kernel for the timestep:
\* beta[c] is the sum over the paths of WIc times the cashflow, 0.0 for a path
\* out of the money, and 0.0 on a flagged timestep.
ExactBeta ==
  /\ hpc = "partial_beta"
  /\ d_temp_storage' =
       [i \in DOMAIN d_temp_storage |->
          IF i >= 3 THEN d_temp_storage[i]
          ELSE IF d_all_out_of_the_money[timestep] # 0 THEN QZero
          ELSE QSum(Paths,
                    [p \in Paths |->
                       LET S == d_paths[timestep * num_paths + p]
                       IN IF is_in_the_money(S)
                          THEN QMul(ExactWI(timestep, QInt(S))[i + 1], Cashflow(p))
                          ELSE QZero])]
  /\ hpc' = "update_cashflow"
  /\ UNCHANGED <<varsAside, price_put, num_paths, h_samples, timestep, stream, running,
                 d_samples, d_paths, d_svds, d_all_out_of_the_money, h_price, blk,
                 upd_next, update_cashflow_grid, dlog, nwrites, old_cf, issued_early>>

\* Lines 816-844 for one path.
exact_update_cashflow(t, path) ==
  LET old_cashflow == QMul(QDisc, Cashflow(path))
      S == d_paths[t * num_paths + path]
      payoff == QInt(Payoff(S))
      estimated_payoff ==
        QMul(QAdd(QAdd(d_temp_storage[0], QMul(d_temp_storage[1], QInt(S))),
                  QMul(d_temp_storage[2], QInt(S * S))),
             QDisc)
  IN IF d_all_out_of_the_money[t] # 0 THEN old_cashflow
     ELSE IF QLessEq(payoff, QZero) \/ QLessEq(payoff, estimated_payoff)
          THEN old_cashflow
          ELSE payoff

\* update_cashflow_kernel for the timestep, and lines 967 and 1001 of the loop.
ExactUpdateCashflow ==
  /\ hpc = "update_cashflow"
  /\ d_paths' = [i \in DOMAIN d_paths |->
                   IF i >= CashflowsBase
                   THEN exact_update_cashflow(timestep, i - CashflowsBase)
                   ELSE d_paths[i]]
  /\ timestep' = timestep - 1
  /\ hpc' = IF timestep - 1 >= 0 THEN "partial_beta" ELSE "partial_sums"
  /\ UNCHANGED <<varsAside, price_put, num_paths, h_samples, stream, running,
                 d_samples, d_svds, d_all_out_of_the_money, d_temp_storage, h_price,
                 blk, upd_next, update_cashflow_grid, dlog, nwrites, old_cf,
                 issued_early>>

\* compute_partial_sums_kernel, compute_final_sum_kernel (line 897) and the
\* copy of the price to the host.
ExactPrice ==
  /\ hpc = "partial_sums"
  /\ h_price' = QDiv(QMul(QDisc, QSum(Paths, [p \in Paths |-> Cashflow(p)])),
                     QInt(num_paths))
  /\ hpc' = "done"
  /\ UNCHANGED <<varsAside, price_put, num_paths, h_samples, timestep, stream, running,
                 d_samples, d_paths, d_svds, d_all_out_of_the_money, d_temp_storage,
                 blk, upd_next, update_cashflow_grid, dlog, nwrites, old_cf,
                 issued_early>>

NextExact ==
  \/ ExactScan
  \/ assemble_R_1
  \/ assemble_R_2
  \/ assemble_R_2_update
  \/ assemble_R_3
  \/ svd_3x3
  \/ ExactBeta
  \/ ExactUpdateCashflow
  \/ ExactPrice

SpecExact == InitExact /\ [][NextExact]_vars

\* The average of the terminal payoffs, discounted over the num_timesteps steps.
RECURSIVE Discounted(_, _)
Discounted(v, n) == IF n = 0 THEN v ELSE Discounted(QMul(QDisc, v), n - 1)
TerminalOnlyPrice ==
  QDiv(Discounted(QSum(Paths, old_cf), NumTimesteps), QInt(num_paths))

\* C15 as stated: the price do_run returns is at least the price of the same
\* paths when none is exercised before the last timestep.
C15_AtLeastTerminalOnly ==
  hpc = "done" => QLessEq(TerminalOnlyPrice, h_price)


\* ------------------------------------------------------------- main: the size of d_temp_storage
\* The sizes of the build, which the model of do_run above scales down.
MAX_GRID_SIZE == 2048
PathsPerUnit == 1024
ReductionBlock == 128

\* The largest value of -paths the model takes.
MaxPathsArg == 1025

\* No part of do_run's model is present, shared memory aside.
RunAbsent ==
  /\ blockIdx = 0
  /\ thr = <<>>
  /\ acc = {}
  /\ svds_written = {}
  /\ eig = <<>>
  /\ first_run = <<>>
  /\ temp_writer = <<>>
  /\ price_put = TRUE
  /\ num_paths = 1
  /\ h_samples = <<>>
  /\ hpc = "done"
  /\ timestep = -1
  /\ stream = <<>>
  /\ running = Idle
  /\ d_samples = <<>>
  /\ d_paths = <<>>
  /\ d_svds = <<>>
  /\ d_all_out_of_the_money = <<>>
  /\ d_temp_storage = <<>>
  /\ h_price = 0
  /\ blk = <<>>
  /\ upd_next = <<>>
  /\ update_cashflow_grid = 0
  /\ dlog = <<>>
  /\ nwrites = <<>>
  /\ old_cf = <<>>
  /\ issued_early = FALSE

\* main, lines 1075 and 1089-1090: -paths as given, any positive count.
InitScratch ==
  /\ RunAbsent
  /\ shm = <<>>
  /\ ga = <<>>
  /\ util = <<>>
  /\ \E arg \in 1 .. MaxPathsArg :
       temp_access = [pc |-> "main", num_paths |-> arg, size |-> 0,
                      grid_dim |-> 0, kernel |-> "none", top |-> -1]

ScratchFrame == UNCHANGED <<varsRun, varsBlock, temp_writer, ga, util>>

\* The kernel and the highest index of d_temp_storage it addresses.
Addresses(kernel, top) ==
  [temp_access EXCEPT !.kernel = kernel, !.top = top]

\* main, lines 1129 and 1160-1162.
MainAllocates ==
  /\ temp_access.pc = "main"
  /\ temp_access' = [temp_access EXCEPT
                       !.pc = "partial_beta",
                       !.num_paths = @ * PathsPerUnit,
                       !.size = 4 * MAX_GRID_SIZE]
  /\ ScratchFrame

\* compute_partial_beta_kernel<<<128, 128>>>: thread 0 of block b stores
\* partial_sums[k*128 + b], k = 0..2 (lines 738-743).
ScratchPartialBeta ==
  /\ temp_access.pc = "partial_beta"
  /\ temp_access' = [Addresses("partial_beta", 2 * ReductionBlock + ReductionBlock - 1)
                       EXCEPT !.pc = "final_beta"]
  /\ ScratchFrame

\* compute_final_beta_kernel<<<1, 128>>>: thread x loads beta[k*128 + x]
\* (lines 765-767), threads 0..2 store beta[0..2] (lines 784-786).
ScratchFinalBeta ==
  /\ temp_access.pc = "final_beta"
  /\ temp_access' = [Addresses("final_beta", 2 * ReductionBlock + ReductionBlock - 1)
                       EXCEPT !.pc = "update_cashflow"]
  /\ ScratchFrame

\* update_cashflow_kernel loads beta[0..2] (lines 809-811); do_run then sets
\* the grid of the price reduction (line 999).
ScratchUpdateCashflow ==
  /\ temp_access.pc = "update_cashflow"
  /\ temp_access' = [Addresses("update_cashflow", 2) EXCEPT
                       !.pc = "partial_sums",
                       !.grid_dim = (temp_access.num_paths + ReductionBlock - 1)
                                      \div ReductionBlock]
  /\ ScratchFrame

\* compute_partial_sums_kernel<<<grid_dim, 128>>>: thread 0 of block b stores
\* sums[b] (line 872).
ScratchPartialSums ==
  /\ temp_access.pc = "partial_sums"
  /\ temp_access' = [Addresses("partial_sums", temp_access.grid_dim - 1)
                       EXCEPT !.pc = "final_sum"]
  /\ ScratchFrame

\* compute_final_sum_kernel<<<1, 128>>>: loads sums[item], item < num_blocks
\* (lines 887-888), thread 0 stores sums[0] (line 897).
ScratchFinalSum ==
  /\ temp_access.pc = "final_sum"
  /\ temp_access' = [Addresses("final_sum", temp_access.grid_dim - 1)
                       EXCEPT !.pc = "done"]
  /\ ScratchFrame

NextScratch ==
  \/ MainAllocates
  \/ ScratchPartialBeta
  \/ ScratchFinalBeta
  \/ ScratchUpdateCashflow
  \/ ScratchPartialSums
  \/ ScratchFinalSum

SpecScratch == InitScratch /\ [][NextScratch]_vars

\* C26 as stated: every index of d_temp_storage that the beta reduction and
\* the price reduction address is below the 4 * MAX_GRID_SIZE doubles that
\* main allocates, whatever positive count -paths gives.
C26_WithinTempStorage ==
  temp_access # <<>> => temp_access.top < 4 * MAX_GRID_SIZE


\* ------------------------------------------------------------- ga-hip/main.cu
\* kBatchSize (1024 in the build) and the block size of line 89 (256 in the
\* build), scaled; the largest target length and coarse match length taken.
kBatchSize == 4
block_size == 2
MaxTseqSize == 6
MaxCoarseMatchLength == 2

\* main, lines 49-72.  The sequences are abstracted to the set of start
\* positions whose window of the target matches the query within the threshold
\* (lines 23-35); a window lies inside the target for the positions
\* 0 .. tseq_size - coarse_match_length.
InitGa ==
  /\ RunAbsent
  /\ shm = <<>>
  /\ temp_access = <<>>
  /\ util = <<>>
  /\ \E tseq_size \in 1 .. MaxTseqSize :
       \E coarse_match_length \in 1 .. Min(tseq_size, MaxCoarseMatchLength) :
         \E matching \in SUBSET (0 .. tseq_size - coarse_match_length) :
           ga = [pc |-> "while",
                 tseq_size |-> tseq_size,
                 coarse_match_length |-> coarse_match_length,
                 matching |-> matching,
                 max_searchable_length |-> tseq_size - coarse_match_length,
                 current_position |-> 0,
                 end_position |-> 0,
                 length |-> 0,
                 d_batch_result |-> [i \in 0 .. kBatchSize - 1 |-> 0],
                 written |-> {},
                 batches |-> <<>>,
                 ok |-> TRUE]

GaFrame == UNCHANGED <<varsRun, varsBlock, temp_writer, temp_access, util>>

\* Line 79, and lines 80-87 when the loop goes on.
GaBatchBegin ==
  /\ ga.pc = "while"
  /\ IF ga.current_position < ga.max_searchable_length
     THEN LET end == IF ga.current_position + kBatchSize >= ga.max_searchable_length
                     THEN ga.max_searchable_length
                     ELSE ga.current_position + kBatchSize
          IN ga' = [ga EXCEPT !.pc = "launch",
                              !.d_batch_result = [i \in 0 .. kBatchSize - 1 |-> 0],
                              !.written = {},
                              !.end_position = end,
                              !.length = end - ga.current_position]
     ELSE ga' = [ga EXCEPT !.pc = "exit"]
  /\ GaFrame

\* The threads of the grid of line 90.
GaThreads == 0 .. ((ga.length + block_size - 1) \div block_size) * block_size - 1

\* The cells of batch_result the kernel stores 1 to: thread tid returns when
\* tid > length (line 19) and stores when its window matches (lines 36-37).
GaStores ==
  {tid \in GaThreads : ~(tid > ga.length) /\ (ga.current_position + tid) \in ga.matching}

\* Lines 92-94: the kernel, whose threads are independent of each other.
GaKernel ==
  /\ ga.pc = "launch"
  /\ ga' = [ga EXCEPT !.pc = "compare",
                      !.written = GaStores,
                      !.d_batch_result = [i \in 0 .. kBatchSize - 1 |->
                                            IF i \in GaStores THEN 1 ELSE 0]]
  /\ GaFrame

\* reference (reference.h is not part of the sources at hand): the host loop
\* over the positions 0 .. length-1 of the batch with the test of the kernel.
reference ==
  [i \in 0 .. kBatchSize - 1 |->
     IF i < ga.length /\ (ga.current_position + i) \in ga.matching THEN 1 ELSE 0]

\* Lines 96-105.
GaCompare ==
  /\ ga.pc = "compare"
  /\ IF reference # ga.d_batch_result
     THEN ga' = [ga EXCEPT !.pc = "exit", !.ok = FALSE]
     ELSE ga' = [ga EXCEPT !.pc = "while",
                          !.batches = Append(@, <<ga.current_position, ga.end_position>>),
                          !.current_position = ga.end_position]
  /\ GaFrame

NextGa ==
  \/ GaBatchBegin
  \/ GaKernel
  \/ GaCompare

SpecGa == InitGa /\ [][NextGa]_vars

\* C29 as stated: in each batch the kernel stores to batch_result[i] only for
\* i < length; and when the loop has ended, the batches it completed are
\* consecutive, of at most kBatchSize positions each, and cover the start
\* positions 0 .. tseq_size - coarse_match_length - 1, each once.
C29_BatchesCoverOnce ==
  ga # <<>> =>
    /\ \A i \in ga.written : i < ga.length
    /\ ga.pc = "exit" =>
         /\ \A n \in 1 .. Len(ga.batches) :
              /\ ga.batches[n][1] = IF n = 1 THEN 0 ELSE ga.batches[n - 1][2]
              /\ ga.batches[n][2] > ga.batches[n][1]
              /\ ga.batches[n][2] - ga.batches[n][1] <= kBatchSize
         /\ IF ga.max_searchable_length = 0 THEN ga.batches = <<>>
            ELSE /\ ga.batches # <<>>
                 /\ ga.batches[Len(ga.batches)][2] = ga.max_searchable_length


\* ------------------------------------------------------------- agsg-cuda/util.cu: iDivUpF
\* The arguments taken: a in 0 .. MaxA and b = n / BDen for n in 1 .. MaxBNum.
\* These values of b and the quotients a / b of the model are far from the
\* limits of float, so that a / b and a / b + 1 round to a float on the same
\* side of every integer as the exact value and int() of them is the floor of
\* the exact value.
MaxA == 8
MaxBNum == 12
BDen == 4

InitUtil ==
  /\ RunAbsent
  /\ shm = <<>>
  /\ temp_access = <<>>
  /\ ga = <<>>
  /\ \E a \in 0 .. MaxA, n \in 1 .. MaxBNum :
       util = [pc |-> "call", a |-> a, b |-> <<n, BDen>>, result |-> 0]

UtilFrame == UNCHANGED <<varsRun, varsBlock, temp_writer, temp_access, ga>>

\* int(x) of a float x = n / d >= 0: the fraction is dropped.
int(x) == x[1] \div x[2]

\* Line 16, for int(b) # 0.
iDivUpF(a, b) ==
  LET quotient == <<a * b[2], b[1]>>
      quotient_plus_1 == <<a * b[2] + b[1], b[1]>>
  IN IF a % int(b) # 0 THEN int(quotient_plus_1) ELSE int(quotient)

\* A call with int(b) # 0 returns.
UtilReturn ==
  /\ util.pc = "call"
  /\ int(util.b) # 0
  /\ util' = [util EXCEPT !.pc = "returned", !.result = iDivUpF(util.a, util.b)]
  /\ UtilFrame

\* A call with 0 < b < 1: a % int(b) is an integer division by zero, which is
\* undefined; the division traps, or it yields a remainder of a and the call
\* returns as from the branch that the remainder selects.
UtilDivisionByZero ==
  /\ util.pc = "call"
  /\ int(util.b) = 0
  /\ \/ util' = [util EXCEPT !.pc = "trapped"]
     \/ util' = [util EXCEPT
                   !.pc = "returned",
                   !.result = IF util.a # 0
                              THEN int(<<util.a * util.b[2] + util.b[1], util.b[1]>>)
                              ELSE int(<<util.a * util.b[2], util.b[1]>>)]
  /\ UtilFrame

NextUtil ==
  \/ UtilReturn
  \/ UtilDivisionByZero

SpecUtil == InitUtil /\ [][NextUtil]_vars

\* C30 as stated: for a >= 0 and b > 0, an integer or not, the call returns
\* the smallest integer that is not below a / b.
C30_SmallestIntegerNotBelow ==
  util # <<>> =>
    /\ util.pc # "trapped"
    /\ util.pc = "returned" =>
         /\ util.result * util.b[1] >= util.a * util.b[2]
         /\ (util.result - 1) * util.b[1] < util.a * util.b[2]


\* ------------------------------------------------------------- assemble_R in rounded arithmetic
\* Binary floating point with a significand of MantissaBits bits (53 in a
\* double), rounded to nearest, ties to even, exponents unbounded.  A finite
\* value is <<n, e>>, n * 2^e, with n = 0 and e = 0 or
\* 2^(MantissaBits-1) <= |n| < 2^MantissaBits; NaN and the infinities carry the
\* exponent Special.
MantissaBits == 7
Special == 100 * MantissaBits
FNaN == <<0, Special>>
FInf(s) == <<s, Special>>
FZero == <<0, 0>>
IsNaN(x) == x = FNaN
IsSpecial(x) == x[2] = Special

\* The powers of two that fit a 32-bit integer.
TwoTo == [b \in 0 .. 30 |-> Pow(2, b)]

BitLen(a) == CHOOSE b \in 1 .. 30 : TwoTo[b - 1] <= a /\ a < TwoTo[b]

\* n * 2^e rounded to the significand.
FRound(n, e) ==
  IF n = 0 THEN FZero
  ELSE LET a == Abs(n)
           s == IF n < 0 THEN -1 ELSE 1
           k == BitLen(a) - MantissaBits
       IN IF k <= 0 THEN <<s * a * TwoTo[-k], e + k>>
          ELSE LET q == a \div TwoTo[k]
                   r == a % TwoTo[k]
                   half == TwoTo[k - 1]
                   q1 == IF r > half \/ (r = half /\ q % 2 = 1) THEN q + 1 ELSE q
               IN IF q1 = TwoTo[MantissaBits]
                  THEN <<s * TwoTo[MantissaBits - 1], e + k + 1>>
                  ELSE <<s * q1, e + k>>

FInt(k) == FRound(k, 0)
FNeg(x) == IF IsNaN(x) THEN x ELSE <<-x[1], x[2]>>

\* x + y.  An addend too small to reach the guard bits only marks the sum inexact.
FAdd(x, y) ==
  IF IsSpecial(x) \/ IsSpecial(y) THEN FNaN
  ELSE IF x[1] = 0 THEN y
  ELSE IF y[1] = 0 THEN x
  ELSE LET hi == IF x[2] >= y[2] THEN x ELSE y
           lo == IF x[2] >= y[2] THEN y ELSE x
           d == hi[2] - lo[2]
       IN IF d > MantissaBits + 2
          THEN FRound(4 * hi[1] + (IF lo[1] < 0 THEN -1 ELSE 1), hi[2] - 2)
          ELSE FRound(hi[1] * TwoTo[d] + lo[1], lo[2])

FSub(x, y) == FAdd(x, FNeg(y))

FMul(x, y) ==
  IF IsSpecial(x) \/ IsSpecial(y) THEN FNaN
  ELSE FRound(x[1] * y[1], x[2] + y[2])

\* x / y: a quotient by zero is an infinity, NaN for 0 / 0.
FDiv(x, y) ==
  IF IsSpecial(x) \/ IsSpecial(y) THEN FNaN
  ELSE IF y[1] = 0
       THEN (IF x[1] = 0 THEN FNaN ELSE FInf(IF x[1] < 0 THEN -1 ELSE 1))
  ELSE LET shift == MantissaBits + 3
           num == Abs(x[1]) * TwoTo[shift]
           q == num \div Abs(y[1])
           sticky == IF num % Abs(y[1]) = 0 THEN 0 ELSE 1
           s == IF (x[1] < 0) = (y[1] < 0) THEN 1 ELSE -1
       IN FRound(s * (2 * q + sticky), x[2] - y[2] - shift - 1)

\* sqrt(x): NaN below zero.
FSqrt(x) ==
  IF IsSpecial(x) \/ x[1] < 0 THEN FNaN
  ELSE IF x[1] = 0 THEN FZero
  ELSE LET shift == IF (x[2] - MantissaBits - 3) % 2 = 0
                    THEN MantissaBits + 3 ELSE MantissaBits + 4
           N == x[1] * TwoTo[shift]
           r == CHOOSE i \in 0 .. TwoTo[MantissaBits + 2] :
                  i * i <= N /\ N < (i + 1) * (i + 1)
           sticky == IF r * r = N THEN 0 ELSE 1
       IN FRound(2 * r + sticky, (x[2] - shift) \div 2 - 1)

\* abs(x) < y for a finite y above zero.
FAbsLess(x, y) ==
  IF IsSpecial(x) THEN FALSE
  ELSE x[1] = 0 \/ x[2] < y[2] \/ (x[2] = y[2] /\ Abs(x[1]) < y[1])

\* The threshold 1.0e-16 of line 172, just below half the distance from 1.0 to
\* the next double: here half the distance from 1.0 to the next value.
Threshold172 == FRound(1, -MantissaBits)

\* The prices from 0.5 up to 1.0.
RoundedPrices == {<<n, -MantissaBits>> : n \in TwoTo[MantissaBits - 1] .. TwoTo[MantissaBits] - 1}

\* A block with min_in_the_money paths in the money: the first has price a,
\* the second price b, the others price a.
InitRounded ==
  /\ RunAbsent
  /\ temp_access = <<>>
  /\ ga = <<>>
  /\ util = <<>>
  /\ \E a, b \in RoundedPrices :
       shm = [pc |-> "s597", m |-> min_in_the_money, S |-> <<a, b>>]

RoundedFrame ==
  UNCHANGED <<varsRun, blockIdx, thr, acc, svds_written, eig, first_run, varsOther,
              temp_writer>>

\* Lines 553-566 and 597-600: each thread holds the powers of its price and
\* adds them to lsums with atomicAdd; the additions take place in any order,
\* here with the second path's as the k-th.
lsums_rounded ==
  /\ shm.pc = "s597"
  /\ \E k \in 1 .. shm.m :
       LET price == [i \in 1 .. shm.m |-> IF i = k THEN shm.S[2] ELSE shm.S[1]]
           sq == [i \in 1 .. shm.m |-> FMul(price[i], price[i])]
           x == FAdd(FAdd(FAdd(price[1], price[2]), price[3]), price[4])
           y == FAdd(FAdd(FAdd(sq[1], sq[2]), sq[3]), sq[4])
       IN shm' = [pc |-> "s128", m |-> shm.m, x0 |-> shm.S[1], x1 |-> shm.S[2],
                  sums |-> <<x, y>>, zero_den |-> {}]
  /\ RoundedFrame

\* The lines of the divisions among ds, pairs of a line and a denominator,
\* whose denominator is zero.
ZeroDenominators(ds) == {d[1] : d \in {e \in ds : e[2] = FZero}}

\* Lines 128-159, the part of them that c1 depends on.
assemble_R_1_rounded ==
  /\ shm.pc = "s128"
  /\ LET m_as_dbl == FInt(shm.m)
         sigma == FSub(m_as_dbl, FInt(1))
         mu == FSqrt(m_as_dbl)
         v0 == FDiv(FNeg(sigma), FAdd(FInt(1), mu))
         v0_sq == FMul(v0, v0)
         beta == FDiv(FMul(FInt(2), v0_sq), FAdd(sigma, v0_sq))
         inv_v0 == FDiv(FInt(1), v0)
         beta_div_v0 == FMul(beta, inv_v0)
     IN shm' = [pc |-> "s156", m |-> shm.m, x0 |-> shm.x0, x1 |-> shm.x1,
                sum1 |-> FSub(shm.sums[1], shm.x0),
                sum2 |-> FSub(shm.sums[2], FMul(shm.x0, shm.x0)),
                v0 |-> v0,
                beta_div_v0 |-> beta_div_v0,
                beta_div_v0_sq |-> FMul(beta_div_v0, inv_v0),
                zero_den |-> ZeroDenominators({<<141, FAdd(FInt(1), mu)>>,
                                               <<143, FAdd(sigma, v0_sq)>>,
                                               <<145, v0>>})]
  /\ RoundedFrame

\* Lines 156-171.
assemble_R_2_sigma ==
  /\ shm.pc = "s156"
  /\ LET c1 == FAdd(FMul(shm.beta_div_v0_sq, shm.sum1), FMul(shm.beta_div_v0, shm.x0))
         sum1 == FSub(shm.sum1, shm.x1)
         sum2 == FSub(shm.sum2, FMul(shm.x1, shm.x1))
         x0 == FSub(shm.x1, c1)
         m_min_2 == FSub(FInt(shm.m), FInt(2))
     IN shm' = [pc |-> "s172", x0 |-> x0, x0_sq |-> FMul(x0, x0), v0 |-> shm.v0,
                sigma |-> FAdd(FSub(sum2, FMul(FMul(FInt(2), c1), sum1)),
                               FMul(FMul(m_min_2, c1), c1)),
                zero_den |-> shm.zero_den]
  /\ RoundedFrame

\* Lines 172-186.
assemble_R_2_beta ==
  /\ shm.pc = "s172"
  /\ IF FAbsLess(shm.sigma, Threshold172)
     THEN shm' = [pc |-> "s189", sigma |-> shm.sigma, x0 |-> shm.x0, v0 |-> shm.v0,
                  beta |-> FZero,
                  zero_den |-> shm.zero_den \cup ZeroDenominators({<<186, shm.v0>>})]
     ELSE LET mu == FSqrt(FAdd(shm.x0_sq, shm.sigma))
              v0 == IF IsNaN(shm.x0) \/ shm.x0[1] > 0
                    THEN FDiv(FNeg(shm.sigma), FAdd(shm.x0, mu))
                    ELSE FSub(shm.x0, mu)
              v0_sq == FMul(v0, v0)
              divided == {<<183, FAdd(shm.sigma, v0_sq)>>, <<186, v0>>}
                           \cup (IF IsNaN(shm.x0) \/ shm.x0[1] > 0
                                 THEN {<<181, FAdd(shm.x0, mu)>>} ELSE {})
          IN shm' = [pc |-> "s189", sigma |-> shm.sigma, x0 |-> shm.x0, v0 |-> v0,
                     beta |-> FDiv(FMul(FInt(2), v0_sq), FAdd(shm.sigma, v0_sq)),
                     zero_den |-> shm.zero_den \cup ZeroDenominators(divided)]
  /\ RoundedFrame

NextRounded ==
  \/ lsums_rounded
  \/ assemble_R_1_rounded
  \/ assemble_R_2_sigma
  \/ assemble_R_2_beta

SpecRounded == InitRounded /\ [][NextRounded]_vars

\* C21 as stated, for the divisions of lines 141-186 of assemble_R with
\* min_in_the_money paths in the money: none of them is performed with a
\* zero denominator.
C21_NoZeroDenominator ==
  (shm # <<>> /\ shm.pc = "s189") => shm.zero_den = {}

====
